---- MODULE Spec2Model ----
(***************************************************************************)
(* GeneticEngine: grammar construction, the distance-to-terminal fixpoint  *)
(* (geneticengine/core/grammar.py) and the tree-based representation       *)
(* (geneticengine/core/representations/treebased.py): PI_Grow synthesis,   *)
(* mutation and crossover.                                                 *)
(***************************************************************************)
EXTENDS Integers, Sequences, FiniteSets, TLC

VARIABLES g, pre, pop, call, grow, hist, ev, gengy, par

vars == <<g, pre, pop, call, grow, hist, ev, gengy, par>>

(***************************************************************************)
(* Bounds of the model.                                                    *)
(***************************************************************************)
\* largest depth budget passed to synthesize / mutate / tree_crossover
MaxDepth == 3
\* largest depth budget of the step-by-step PI_Grow runs
GrowDepth == 2
\* largest size (attribute nodes) of a tree kept in the population
MaxNodes == 3
\* largest number of alternatives registered by hand on one Grammar
MaxAlternatives == 2
\* number of Individual objects alive at a time
NumIndividuals == 2
\* largest number of fitness function calls of a run
MaxCalls == 3

\* passes of the loop of preprocess a run may begin
MaxPasses == 8

\* largest learning rate passed to update_weights
MaxRate == 1

\* the fixpoint's "infinite" distance
INF == 1000000

(***************************************************************************)
(* The node types of the modelled grammars (dataclasses of the tests).     *)
(*   safety : Root(ABC); Leaf(Root); UnderTest(Root){a: Leaf, b: Root}     *)
(*   expr   : Expr(ABC); Plus(Expr){l: Expr, r: Expr}; One(Expr)           *)
(*   mixed  : S(ABC); Ok(S){v: int}; Nil(S); @abstract Dead(S);            *)
(*            Spin(Dead){x: Dead, n: int}                                  *)
(*   dead   : the types of mixed, with Dead as the starting symbol         *)
(*   child  : ObjectNavigationChild{val: int}, a dataclass without a base  *)
(*            class, as the starting symbol                                *)
(*   list   : @abstract A; B(A){i: int, m: list[int]} (the class B of      *)
(*            immutability_test.py with its annotated fields left out)     *)
(***************************************************************************)
Builtins == {"int", "str", "float"}

NodeTypes == {"Root", "Leaf", "UnderTest", "Expr", "Plus", "One",
              "S", "Ok", "Nil", "Dead", "Spin", "ObjectNavigationChild",
              "A", "B"}

\* ty.mro()[1] / ty.__bases__[0] (single inheritance)
Parent(ty) ==
    CASE ty \in {"Root", "Expr", "S"} -> "ABC"
      [] ty \in {"Leaf", "UnderTest"} -> "Root"
      [] ty \in {"Plus", "One"} -> "Expr"
      [] ty \in {"Ok", "Nil", "Dead"} -> "S"
      [] ty = "Spin" -> "Dead"
      [] ty = "B" -> "A"
      [] OTHER -> "object"

\* classes carrying the @abstract decorator
AbstractDecorated == {"Dead", "A"}

is_abstract(ty) == Parent(ty) = "ABC" \/ ty \in AbstractDecorated

\* the typed constructor arguments of a class, in declaration order
get_arguments(ty) ==
    CASE ty = "UnderTest" -> << <<"a", "Leaf">>, <<"b", "Root">> >>
      [] ty = "Plus" -> << <<"l", "Expr">>, <<"r", "Expr">> >>
      [] ty = "Ok" -> << <<"v", "int">> >>
      [] ty = "Spin" -> << <<"x", "Dead">>, <<"n", "int">> >>
      [] ty = "ObjectNavigationChild" -> << <<"val", "int">> >>
      [] ty = "B" -> << <<"i", "int">>, <<"m", "list[int]">> >>
      [] OTHER -> << >>

\* a type is terminal when it has no typed fields or is not a registered
\* non-terminal
is_terminal(ty, non_terminals) ==
    get_arguments(ty) = << >> \/ ty \notin non_terminals

\* a list value carries no labels, like the values of the builtin types
is_builtin(ty) == ty \in Builtins \cup {"list"}

\* the type is List[T] ...
is_generic_list(ty) == ty = "list[int]"

\* ... and T is its parameter
get_generic_parameter(ty) == "int"

RECURSIVE Mro(_)
\* the class and its ancestors: isinstance(x, T) iff T \in Mro(type(x))
Mro(ty) ==
    IF ty \in {"object", "ABC"} THEN {ty}
    ELSE {ty} \cup Mro(Parent(ty))

GrammarNames == {"safety", "expr", "mixed", "dead", "child", "list"}

StartingSymbol(name) ==
    CASE name = "safety" -> "UnderTest"
      [] name = "expr" -> "Expr"
      [] name = "mixed" -> "S"
      [] name = "dead" -> "Dead"
      [] name = "child" -> "ObjectNavigationChild"
      [] name = "list" -> "A"

ConsideredSubtypes(name) ==
    CASE name = "safety" -> <<"Leaf", "UnderTest", "Root">>
      [] name = "expr" -> <<"Plus", "One">>
      [] name = "mixed" -> <<"Ok", "Nil", "Dead", "Spin">>
      [] name = "dead" -> <<"Ok", "Nil", "Dead", "Spin">>
      [] name = "child" -> <<"ObjectNavigationChild">>
      [] name = "list" -> <<"A", "B">>

(***************************************************************************)
(* Dictionaries: functions whose domain is the set of keys.                *)
(***************************************************************************)
EmptyDict == [k \in {} |-> 0]

Put(d, k, v) == [x \in (DOMAIN d) \cup {k} |-> IF x = k THEN v ELSE d[x]]

Min(a, b) == IF a < b THEN a ELSE b

Max(a, b) == IF a > b THEN a ELSE b

RECURSIVE SeqMax(_)
SeqMax(s) == IF Len(s) = 1 THEN s[1] ELSE Max(s[1], SeqMax(Tail(s)))

RECURSIVE SeqSum(_)
SeqSum(s) == IF s = << >> THEN 0 ELSE s[1] + SeqSum(Tail(s))

Range(s) == {s[i] : i \in DOMAIN s}

(***************************************************************************)
(* Grammar.__init__ , validate, register_alternative, register_type        *)
(***************************************************************************)
\* validate: every considered subtype is abstract or has a typed constructor
\* (all modelled classes are dataclasses, so no type is rejected)
validate(considered) ==
    IF \A i \in DOMAIN considered : considered[i] \in NodeTypes
    THEN "none" ELSE "InvalidGrammarException"

Grammar(starting_symbol, considered_subtypes) ==
    [ starting_symbol |-> starting_symbol,
      considered_subtypes |-> considered_subtypes,
      alternatives |-> EmptyDict,
      distanceToTerminal |-> [t \in Builtins |-> 0],
      all_nodes |-> {},
      recursive_prods |-> {},
      terminals |-> {},
      non_terminals |-> {},
      abstract_dist_to_t |-> EmptyDict,
      expansion_depthing |-> FALSE,
      raised |-> validate(considered_subtypes) ]

\* the new alternative put first, not last
register_alternative_first(gr, nonterminal, nodetype) ==
    IF ~is_abstract(nonterminal)
    THEN [gr EXCEPT !.raised = "Exception"]
    ELSE LET old == IF nonterminal \in DOMAIN gr.alternatives
                    THEN gr.alternatives[nonterminal] ELSE << >>
         IN [gr EXCEPT !.alternatives = Put(@, nonterminal, <<nodetype>> \o old)]

\* grammar.py 104-115
register_alternative(gr, nonterminal, nodetype) ==
    IF ~is_abstract(nonterminal)
    THEN [gr EXCEPT !.raised = "Exception"]
    ELSE LET old == IF nonterminal \in DOMAIN gr.alternatives
                    THEN gr.alternatives[nonterminal] ELSE << >>
         IN [gr EXCEPT !.alternatives = Put(@, nonterminal, Append(old, nodetype))]

RECURSIVE register_type(_, _)
RECURSIVE RegisterArguments(_, _)
RECURSIVE RegisterSubtypes(_, _, _)

\* the loop over get_arguments(ty) of register_type
RegisterArguments(gr, args) ==
    IF args = << >> THEN gr
    ELSE RegisterArguments(register_type(gr, args[1][2]), Tail(args))

\* the loop over considered_subtypes of register_type
RegisterSubtypes(gr, ty, i) ==
    IF i > Len(gr.considered_subtypes) THEN gr
    ELSE LET st == gr.considered_subtypes[i]
         IN RegisterSubtypes(IF ty \in Mro(st) THEN register_type(gr, st) ELSE gr,
                             ty, i + 1)

register_type(gr, ty) ==
    IF gr.raised # "none" \/ ty \in gr.all_nodes THEN gr
    ELSE IF is_generic_list(ty) THEN register_type(gr, get_generic_parameter(ty))
    ELSE LET g1 == [gr EXCEPT !.all_nodes = @ \cup {ty}]
             parent == Parent(ty)
             g2 == IF parent \notin {"object", "ABC"} /\ parent \notin Builtins
                   THEN register_alternative(register_type(g1, parent), parent, ty)
                   ELSE g1
             g3 == IF ~is_abstract(ty) THEN RegisterArguments(g2, get_arguments(ty))
                   ELSE g2
             terminal == ~is_abstract(ty) /\ get_arguments(ty) = << >>
             g4 == RegisterSubtypes(g3, ty, 1)
         IN IF g4.raised # "none" THEN g4
            ELSE IF terminal THEN [g4 EXCEPT !.terminals = @ \cup {ty}]
            ELSE [g4 EXCEPT !.non_terminals = @ \cup {ty}]

get_all_symbols(gr) ==
    (DOMAIN gr.alternatives)
    \cup UNION {Range(gr.alternatives[k]) : k \in DOMAIN gr.alternatives}
    \cup gr.all_nodes

BoolInt(b) == IF b THEN 1 ELSE 0

\* grammar.py 199-212, for plain classes, builtins and lists of them
get_distance_to_terminal(gr, ty) ==
    IF is_generic_list(ty)
    THEN BoolInt(gr.expansion_depthing)
         + gr.distanceToTerminal[get_generic_parameter(ty)]
    ELSE gr.distanceToTerminal[ty]

get_min_tree_depth(gr) == gr.distanceToTerminal[gr.starting_symbol]


(***************************************************************************)
(* Grammar.preprocess: the fixpoint loop, one symbol visit at a time.      *)
(* A preprocess state is [gr, changed, reachability].  all_sym is a set,   *)
(* so the order of the visits of a pass is the set's iteration order: one  *)
(* arbitrary order per run, the same in every pass.                        *)
(***************************************************************************)
ReachOf(reachability, ty) ==
    IF ty \in DOMAIN reachability THEN reachability[ty] ELSE {}

\* the class under a sequence type (no modelled field type is Annotated)
strip_annotations(ty) ==
    IF is_generic_list(ty) THEN get_generic_parameter(ty) ELSE ty

RECURSIVE process_reachability_direct(_, _, _)
\* the source alone recorded for each destination, without what reaches it
process_reachability_direct(reachability, src, dsts) ==
    IF dsts = << >> THEN [reachability |-> Put(reachability, src, ReachOf(reachability, src)),
                          ch |-> FALSE]
    ELSE LET prod == strip_annotations(dsts[1])
             r0 == Put(reachability, src, ReachOf(reachability, src))
             reach == ReachOf(r0, prod)
             new == reach \cup {src}
             rest == process_reachability_direct(Put(r0, prod, new), src, Tail(dsts))
         IN [reachability |-> rest.reachability,
             ch |-> rest.ch \/ Cardinality(new) # Cardinality(reach)]

RECURSIVE process_reachability(_, _, _)
\* returns [reachability, ch]; reachability[src] is read again for every
\* destination because src_reach aliases the set stored in the dictionary
process_reachability(reachability, src, dsts) ==
    IF dsts = << >> THEN [reachability |-> Put(reachability, src, ReachOf(reachability, src)),
                          ch |-> FALSE]
    ELSE LET prod == strip_annotations(dsts[1])
             r0 == Put(reachability, src, ReachOf(reachability, src))
             reach == ReachOf(r0, prod)
             new == reach \cup {src} \cup r0[src]
             rest == process_reachability(Put(r0, prod, new), src, Tail(dsts))
         IN [reachability |-> rest.reachability,
             ch |-> rest.ch \/ Cardinality(new) # Cardinality(reach)]

AdtGet(adt, a, b) ==
    IF a \in DOMAIN adt /\ b \in DOMAIN adt[a] THEN adt[a][b] ELSE INF

AdtSet(adt, a, b, v) ==
    Put(adt, a, Put(IF a \in DOMAIN adt THEN adt[a] ELSE EmptyDict, b, v))

\* a terminal class costing no level, like a builtin
TerminalDistanceZero(gr, sym) == 0

\* lines 276-279: the distance of a terminal
TerminalDistance(gr, sym) ==
    IF sym \in Builtins /\ ~gr.expansion_depthing THEN 0 ELSE 1

\* the cheapest field deciding the distance, not the dearest
ConcreteDistanceMin(gr, argts) ==
    0 - SeqMax([n \in DOMAIN argts |-> 0 - (1 + get_distance_to_terminal(gr, argts[n]))])

\* a concrete type always costing one level
ConcreteDistanceFlat(gr, argts) == 1

\* line 283: the distance of a concrete type with fields of types argts
ConcreteDistance(gr, argts) ==
    SeqMax([n \in DOMAIN argts |-> 1 + get_distance_to_terminal(gr, argts[n])])

\* an alternative costing no step whatever the grammar's mode
AlternativeDistanceNoStep(gr, prod) == gr.distanceToTerminal[prod]

\* line 260: the distance of an abstract type through the alternative prod
AlternativeDistance(gr, prod) ==
    BoolInt(gr.expansion_depthing) + gr.distanceToTerminal[prod]

\* a value no smaller than the old one counting as a change
ImprovesOrEqual(val, old_val) == val <= old_val

\* line 291: "if val < old_val"
Improves(val, old_val) == val < old_val

RECURSIVE VisitAlternatives(_, _, _)
\* the loop over self.alternatives[sym]; acc is [val, adt, changed]
VisitAlternatives(gr, sym, prods) ==
    IF prods = << >>
    THEN [val |-> gr.distanceToTerminal[sym], adt |-> gr.abstract_dist_to_t,
          changed |-> FALSE]
    ELSE LET n == Len(prods)
             acc == VisitAlternatives(gr, sym, SubSeq(prods, 1, n - 1))
             prod == prods[n]
             val == Min(acc.val, AlternativeDistance(gr, prod))
             old == AdtGet(acc.adt, sym, prod)
             adt1 == IF 1 < old THEN AdtSet(acc.adt, sym, prod, 1)
                     ELSE AdtSet(acc.adt, sym, prod, old)
             subs == IF prod \in DOMAIN adt1 THEN DOMAIN adt1[prod] ELSE {}
             better == {sp \in subs : adt1[prod][sp] + 1 < AdtGet(adt1, sym, sp)}
             adt2 == IF subs = {} THEN adt1
                     ELSE Put(adt1, sym,
                              [sp \in (DOMAIN adt1[sym]) \cup subs |->
                                  IF sp \in better THEN adt1[prod][sp] + 1
                                  ELSE AdtGet(adt1, sym, sp)])
         IN [val |-> val, adt |-> adt2,
             changed |-> acc.changed \/ 1 < old \/ better # {}]

\* one iteration of "for sym in all_sym" (grammar.py 251-292)
VisitSym(st, sym) ==
    LET gr == st.gr
        old_val == gr.distanceToTerminal[sym]
    IN IF is_abstract(sym)
       THEN IF sym \in DOMAIN gr.alternatives
            THEN LET prods == gr.alternatives[sym]
                     acc == VisitAlternatives(gr, sym, prods)
                     pr == process_reachability(st.reachability, sym, prods)
                     upd == Improves(acc.val, old_val)
                 IN [gr |-> [gr EXCEPT !.abstract_dist_to_t = acc.adt,
                                       !.distanceToTerminal[sym] =
                                           IF upd THEN acc.val ELSE @],
                     changed |-> st.changed \/ acc.changed \/ pr.ch \/ upd,
                     reachability |-> pr.reachability]
            ELSE st
       ELSE IF is_terminal(sym, gr.non_terminals)
            THEN LET val == TerminalDistance(gr, sym)
                     upd == Improves(val, old_val)
                 IN [st EXCEPT !.gr.distanceToTerminal[sym] = IF upd THEN val ELSE @,
                               !.changed = @ \/ upd]
            ELSE LET args == get_arguments(sym)
                     argts == [i \in DOMAIN args |-> args[i][2]]
                     val == ConcreteDistance(gr, argts)
                     pr == process_reachability(st.reachability, sym, argts)
                     upd == Improves(val, old_val)
                 IN [gr |-> [gr EXCEPT !.distanceToTerminal[sym] =
                                           IF upd THEN val ELSE @],
                     changed |-> st.changed \/ pr.ch \/ upd,
                     reachability |-> pr.reachability]

\* lines 228-233: every symbol starts at the infinite distance
PreprocessBegin(gr) ==
    [gr |-> [gr EXCEPT !.distanceToTerminal =
                [t \in (DOMAIN @) \cup get_all_symbols(gr) |->
                    IF t \in get_all_symbols(gr) THEN INF ELSE @[t]]],
     changed |-> TRUE,
     reachability |-> EmptyDict]

\* lines 294-296
PreprocessEnd(st) ==
    [st.gr EXCEPT !.recursive_prods =
        @ \cup {sym \in get_all_symbols(st.gr) : sym \in ReachOf(st.reachability, sym)}]

Perms(S) ==
    {s \in [1..Cardinality(S) -> S] : \A i, j \in DOMAIN s : s[i] = s[j] => i = j}

RECURSIVE RunPass(_, _, _)
\* one "for sym in all_sym" pass in the given order, from position i
RunPass(st, order, i) ==
    IF i > Len(order) THEN st
    ELSE RunPass(VisitSym(st, order[i]), order, i + 1)

\* the symbols visited in one pass only, not until nothing changes
RunLoopOnce(st, order) == RunPass([st EXCEPT !.changed = FALSE], order, 1)

RECURSIVE RunLoop(_, _)
\* "while changed" (lines 248-292)
RunLoop(st, order) ==
    IF ~st.changed THEN st
    ELSE RunLoop(RunPass([st EXCEPT !.changed = FALSE], order, 1), order)

\* preprocess as a whole, for one iteration order of all_sym
preprocess(gr, order) == PreprocessEnd(RunLoop(PreprocessBegin(gr), order))

\* extract_grammar (no class of the modelled grammars carries a weight)
extract_grammar(gr, order) == preprocess(register_type(gr, gr.starting_symbol), order)

\* Grammar(starting_symbol, considered_subtypes) for a modelled grammar
GrammarOf(name) == Grammar(StartingSymbol(name), ConsideredSubtypes(name))

\* the grammars extract_grammar can return for each modelled grammar, over
\* the orders in which preprocess can iterate all_sym
Extractions ==
    [name \in GrammarNames |->
        {extract_grammar(GrammarOf(name), order) :
            order \in Perms(get_all_symbols(
                         register_type(GrammarOf(name), StartingSymbol(name))))}]

\* the modelled grammar gr was constructed for
NameOf(gr) ==
    CHOOSE name \in GrammarNames :
        /\ StartingSymbol(name) = gr.starting_symbol
        /\ ConsideredSubtypes(name) = gr.considered_subtypes

(***************************************************************************)
(* Production weights.  The weight of a class is kept with the class, in   *)
(* its __gengy__ dictionary, which every Grammar over the class reads.  A  *)
(* weight is a rational number [n, d] in lowest terms; gengy maps a class  *)
(* to [set, w], set telling whether the dictionary has the key "weight".   *)
(***************************************************************************)
RECURSIVE GCD(_, _)
GCD(a, b) == IF b = 0 THEN a ELSE GCD(b, a % b)

Frac(n, d) == [n |-> n \div GCD(n, d), d |-> d \div GCD(n, d)]

FracAdd(a, b) == Frac(a.n * b.d + b.n * a.d, a.d * b.d)

FracScale(k, a) == Frac(k * a.n, a.d)

FracDiv(a, b) == Frac(a.n * b.d, a.d * b.n)

FracLeq(a, b) == a.n * b.d <= b.n * a.d

NoWeight == [set |-> FALSE, w |-> Frac(1, 1)]

Weight(w) == [set |-> TRUE, w |-> w]

\* get_gengy(prod).get("weight", 1.0)
WeightOf(classes, prod) ==
    IF classes[prod].set THEN classes[prod].w ELSE Frac(1, 1)

\* grammar.py 300-302
get_weights(gr, classes) == [prod \in gr.all_nodes |-> WeightOf(classes, prod)]

RECURSIVE AddExtra(_, _, _, _, _)
\* lines 309-311: [weights, total] after the first loop over prods from k on
AddExtra(weights, prods, learning_rate, extra_weights, k) ==
    IF k > Len(prods) THEN [weights |-> weights, total |-> Frac(0, 1)]
    ELSE LET prod == prods[k]
             w == FracAdd(weights[prod],
                          FracScale(learning_rate, extra_weights[prod]))
             rest == AddExtra([weights EXCEPT ![prod] = w], prods,
                              learning_rate, extra_weights, k + 1)
         IN [weights |-> rest.weights, total |-> FracAdd(w, rest.total)]

RECURSIVE Normalize(_, _, _, _)
\* lines 312-313: the second loop over prods from k on
Normalize(weights, prods, total_weights, k) ==
    IF k > Len(prods) THEN weights
    ELSE Normalize([weights EXCEPT ![prods[k]] = FracDiv(@, total_weights)],
                   prods, total_weights, k + 1)

RECURSIVE AdjustRules(_, _, _, _, _)
\* lines 306-313: "for rule in self.alternatives" over the rules left (no
\* class of the modelled grammars is an alternative of two rules, so the
\* order of the rules does not matter)
AdjustRules(gr, weights, learning_rate, extra_weights, rules) ==
    IF rules = {} THEN weights
    ELSE LET rule == CHOOSE r \in rules : TRUE
             prods == gr.alternatives[rule]
             added == AddExtra(weights, prods, learning_rate, extra_weights, 1)
         IN AdjustRules(gr, Normalize(added.weights, prods, added.total, 1),
                        learning_rate, extra_weights, rules \ {rule})

RECURSIVE StoreWeights(_, _, _, _)
\* lines 318-323: the weights written to the classes, the starting symbol
\* first and the considered subtypes from number k on; weights[node] of a
\* class that is not registered raises KeyError, the classes before it
\* keeping what was written: [classes, raised]
StoreWeights(classes, weights, nodes, k) ==
    IF k > Len(nodes) THEN [classes |-> classes, raised |-> "none"]
    ELSE IF nodes[k] \notin DOMAIN weights
    THEN [classes |-> classes, raised |-> "KeyError"]
    ELSE StoreWeights([classes EXCEPT ![nodes[k]] = Weight(weights[nodes[k]])],
                      weights, nodes, k + 1)

\* grammar.py 304-327: [gr, classes, raised, ret], gr being the Grammar the
\* method was called on afterwards, classes the weights kept with the
\* classes, and ret the object returned: self.  order is the order in which
\* the preprocess of line 326 visits the symbols.
update_weights(gr, classes, learning_rate, extra_weights, order) ==
    LET weights == AdjustRules(gr, get_weights(gr, classes), learning_rate,
                               extra_weights, DOMAIN gr.alternatives)
    IN IF \E prod \in DOMAIN weights : ~FracLeq(weights[prod], Frac(1, 1))
       THEN [gr |-> gr, classes |-> classes, raised |-> "AssertionError",
             ret |-> "none"]
       ELSE LET st == StoreWeights(classes, weights,
                                   <<gr.starting_symbol>> \o gr.considered_subtypes, 1)
            IN IF st.raised # "none"
               THEN [gr |-> gr, classes |-> st.classes, raised |-> st.raised,
                     ret |-> "none"]
               ELSE [gr |-> preprocess(
                               register_type(
                                   [Grammar(gr.starting_symbol, gr.considered_subtypes)
                                       EXCEPT !.expansion_depthing = gr.expansion_depthing],
                                   gr.starting_symbol),
                               order),
                     classes |-> st.classes, raised |-> "none", ret |-> "self"]

(***************************************************************************)
(* State: g is the Grammar object, pre the position inside extract_grammar *)
(* and the locals of preprocess.                                           *)
(***************************************************************************)
PreIdle(pc) == [pc |-> pc, changed |-> FALSE, reachability |-> EmptyDict,
                order |-> << >>, i |-> 0, passes |-> 0]

InitGrammar ==
    /\ \E name \in GrammarNames : g = GrammarOf(name)
    /\ pre = PreIdle("constructed")

\* Grammar(starting_symbol, considered_subtypes, expansion_depthing) as
\* extract_grammar constructs it, for either value of its third argument
InitGrammarDepthing ==
    /\ \E name \in GrammarNames, expansion_depthing \in BOOLEAN :
          g = [GrammarOf(name) EXCEPT !.expansion_depthing = expansion_depthing]
    /\ pre = PreIdle("constructed")

\* g.register_type(starting_symbol)
RegisterStart ==
    /\ pre.pc = "constructed"
    /\ g' = register_type(g, g.starting_symbol)
    /\ pre' = PreIdle("registered")
    /\ UNCHANGED <<pop, call, grow, hist, ev, gengy, par>>

\* preprocess up to the first test of "while changed"
PreprocessStart ==
    /\ pre.pc = "registered"
    /\ \E order \in Perms(get_all_symbols(g)) :
          LET st == PreprocessBegin(g)
          IN /\ g' = st.gr
             /\ pre' = [pc |-> "while", changed |-> st.changed,
                        reachability |-> st.reachability, order |-> order, i |-> 0,
                        passes |-> 0]
    /\ UNCHANGED <<pop, call, grow, hist, ev, gengy, par>>

\* "while changed: changed = False"; passes counts the passes begun, and
\* no run of the model begins more than MaxPasses of them
PassBegin ==
    /\ pre.pc = "while"
    /\ pre.changed
    /\ pre.passes < MaxPasses
    /\ pre' = [pre EXCEPT !.pc = "for", !.changed = FALSE, !.i = 1,
                          !.passes = @ + 1]
    /\ UNCHANGED <<g, pop, call, grow, hist, ev, gengy, par>>

\* one iteration of "for sym in all_sym"
Visit ==
    /\ pre.pc = "for"
    /\ LET st == VisitSym([gr |-> g, changed |-> pre.changed,
                           reachability |-> pre.reachability], pre.order[pre.i])
       IN /\ g' = st.gr
          /\ pre' = [pre EXCEPT !.changed = st.changed,
                                !.reachability = st.reachability,
                                !.i = IF pre.i = Len(pre.order) THEN 0 ELSE pre.i + 1,
                                !.pc = IF pre.i = Len(pre.order) THEN "while" ELSE "for"]
    /\ UNCHANGED <<pop, call, grow, hist, ev, gengy, par>>

\* the loop left after its first pass, whether or not anything changed
PreprocessFinishAfterOnePass ==
    /\ pre.pc = "while"
    /\ pre.passes >= 1
    /\ g' = PreprocessEnd([gr |-> g, changed |-> pre.changed,
                           reachability |-> pre.reachability])
    /\ pre' = [pre EXCEPT !.pc = "ready"]
    /\ UNCHANGED <<pop, call, grow, hist, ev, gengy, par>>

\* the loop is left and recursive_prods is filled in; extract_grammar returns
PreprocessFinish ==
    /\ pre.pc = "while"
    /\ ~pre.changed
    /\ g' = PreprocessEnd([gr |-> g, changed |-> pre.changed,
                           reachability |-> pre.reachability])
    /\ pre' = [pre EXCEPT !.pc = "ready"]
    /\ UNCHANGED <<pop, call, grow, hist, ev, gengy, par>>

(***************************************************************************)
(* Trees.  A node object is [ty, kids, nodes, depth, distance_to_term],    *)
(* kids being the field values in declaration order; an int is [ty, val];  *)
(* a Future is [ty, name, depth, argt]; a raised exception is [ty, err].   *)
(* Unset is the value of an attribute that was never assigned.             *)
(***************************************************************************)
Unset == 0 - 1

NoTree == [ty |-> "None"]

Raised(err) == [ty |-> "Raised", err |-> err]

IntVal(v) == [ty |-> "int", val |-> v]

IsNode(x) == x.ty \in NodeTypes

\* largest value of random_int (the source draws from the whole int range)
MaxInt == 1

\* number of draws handed to one expand_node call
ExpandDraws == 2

\* raw values of one draw of the random source
DrawRange == Max(2, MaxInt + 1)

DrawSeqs == [1..ExpandDraws -> 0..(DrawRange - 1)]

\* r.randint(lo, hi) for the raw draw u
randint(lo, hi, u) == lo + (u % (hi - lo + 1))

\* r.choice(seq) for the raw draw u
choice(seq, u) == seq[1 + (u % Len(seq))]

random_int(u) == IntVal(randint(0, MaxInt, u))

\* every production that fits the depth, recursive or not
filter_choices_unrestricted(gr, possible_choices, depth) ==
    LET Fits(vp) == gr.distanceToTerminal[vp] <= depth
    IN SelectSeq(possible_choices, Fits)

\* treebased.py 92-105
filter_choices(gr, possible_choices, depth) ==
    LET Fits(vp) == gr.distanceToTerminal[vp] <= depth
        valid_productions == SelectSeq(possible_choices, Fits)
        Rec(vp) == vp \in gr.recursive_prods
    IN IF \E i \in DOMAIN valid_productions : Rec(valid_productions[i])
       THEN SelectSeq(valid_productions, Rec)
       ELSE valid_productions

\* the wrapper of PI_Grow: the Future built for field number name.  Its
\* callback is the lambda of expand_node line 177, which reads argt when it
\* is called, after the loop over args has ended: argt is then the type of
\* the last field of the class.
Future(args, name, depth) ==
    [ty |-> "Future", name |-> name, depth |-> depth,
     argt |-> args[Len(args)][2]]

RECURSIVE expand_node(_, _, _, _)

\* the draws left after the first one
Rest(rnd) == IF Len(rnd) > 1 THEN Tail(rnd) ELSE rnd

ListVal(elems) == [ty |-> "list", kids |-> elems]

RECURSIVE ListElements(_, _, _, _, _)
\* "[rec(r, g, wrapper, depth - 1, inner_type) for _ in range(size)]" with
\* size = n: [kids, used, drawn, raised]
ListElements(gr, depth, inner_type, n, rnd) ==
    IF n = 0 THEN [kids |-> << >>, used |-> 0, drawn |-> << >>, raised |-> NoTree]
    ELSE LET e == expand_node(gr, depth, inner_type, rnd)
         IN IF e.obj.ty = "Raised"
            THEN [kids |-> << >>, used |-> e.used, drawn |-> e.drawn, raised |-> e.obj]
            ELSE LET rest == ListElements(gr, depth, inner_type, n - 1, Rest(rnd))
                 IN [kids |-> <<e.obj>> \o rest.kids, used |-> e.used + rest.used,
                     drawn |-> e.drawn \o rest.drawn, raised |-> rest.raised]

\* treebased.py 45-55; r.randint(0, depth - 1) has no value to return when
\* depth is 0 and raises ValueError
random_list(gr, depth, ty, rnd) ==
    LET inner_type == get_generic_parameter(ty)
    IN IF depth - 1 < 0
       THEN [obj |-> Raised("ValueError"), used |-> 0, drawn |-> << >>]
       ELSE LET size == randint(0, depth - 1, rnd[1])
                els == ListElements(gr, depth - 1, inner_type, size, Rest(rnd))
            IN [obj |-> IF els.raised.ty = "Raised" THEN els.raised
                        ELSE ListVal(els.kids),
                used |-> 1 + els.used, drawn |-> <<size>> \o els.drawn]

\* treebased.py 108-180; rnd is the sequence of raw draws of the random
\* source, the result is [obj, used, drawn] with used the number of draws
\* consumed and drawn the values the source returned for them (the position
\* of the chosen production for r.choice)
expand_node(gr, depth, starting_symbol, rnd) ==
    IF depth < 0
    THEN [obj |-> Raised("Recursion Depth reached"), used |-> 0, drawn |-> << >>]
    ELSE IF ~is_generic_list(starting_symbol)
            /\ starting_symbol \notin DOMAIN gr.distanceToTerminal
    THEN [obj |-> Raised("KeyError"), used |-> 0, drawn |-> << >>]
    ELSE IF depth < get_distance_to_terminal(gr, starting_symbol)
    THEN [obj |-> Raised("no depth sufficient"), used |-> 0, drawn |-> << >>]
    ELSE IF starting_symbol = "int"
    THEN [obj |-> random_int(rnd[1]), used |-> 1,
          drawn |-> <<random_int(rnd[1]).val>>]
    ELSE IF is_generic_list(starting_symbol)
    THEN random_list(gr, depth, starting_symbol, rnd)
    ELSE IF starting_symbol \notin gr.all_nodes
    THEN [obj |-> Raised("not in grammar rules"), used |-> 0, drawn |-> << >>]
    ELSE IF starting_symbol \in DOMAIN gr.alternatives
    THEN LET compatible_productions == gr.alternatives[starting_symbol]
             valid_productions == filter_choices(gr, compatible_productions, depth)
         IN IF valid_productions = << >>
            THEN [obj |-> Raised("No productions"), used |-> 0, drawn |-> << >>]
            ELSE LET rule == choice(valid_productions, rnd[1])
                     sub == expand_node(gr, depth, rule, Tail(rnd))
                 IN [obj |-> sub.obj, used |-> sub.used + 1,
                     drawn |-> <<rnd[1] % Len(valid_productions)>> \o sub.drawn]
    ELSE LET args == get_arguments(starting_symbol)
         IN [obj |-> [ty |-> starting_symbol,
                      kids |-> [n \in DOMAIN args |-> Future(args, n, depth - 1)],
                      nodes |-> Unset, depth |-> Unset, distance_to_term |-> Unset],
             used |-> 0, drawn |-> << >>]

RECURSIVE GetAt(_, _)
\* the object reached from root through the fields of path
GetAt(root, path) ==
    IF path = << >> THEN root ELSE GetAt(root.kids[path[1]], Tail(path))

RECURSIVE SetAt(_, _, _)
\* setattr of the last field of path on the object reached by the others
SetAt(root, path, obj) ==
    IF path = << >> THEN obj
    ELSE [root EXCEPT !.kids[path[1]] = SetAt(@, Tail(path), obj)]

\* treebased.py 193-209, as the paths of the Futures found in obj at path
extract_futures(obj, path) ==
    IF IsNode(obj)
    THEN LET Fut(n) == obj.kids[n].ty = "Future"
             idx == SelectSeq([n \in DOMAIN obj.kids |-> n], Fut)
         IN [k \in DOMAIN idx |-> Append(path, idx[k])]
    ELSE << >>

\* every node counted as one, whatever lies below it
number_of_nodes_flat(properties_of_children) == 1

\* line 384: properties_of_children holds the pairs returned for the children
number_of_nodes(properties_of_children) ==
    1 + SeqSum([k \in DOMAIN properties_of_children |->
                   properties_of_children[k][1]])

RECURSIVE relabel_nodes(_, _, _)
\* treebased.py 371-391: the object with nodes, depth and distance_to_term
\* recomputed
relabel_nodes(i, depth, non_terminals) ==
    IF is_terminal(i.ty, non_terminals)
    THEN IF is_builtin(i.ty) THEN i
         ELSE [n \in (DOMAIN i) \cup {"depth", "distance_to_term", "nodes"} |->
                 CASE n = "depth" -> depth
                   [] n = "distance_to_term" -> 1
                   [] n = "nodes" -> 0
                   [] OTHER -> i[n]]
    ELSE LET children == [k \in DOMAIN i.kids |->
                             relabel_nodes(i.kids[k], depth + 1, non_terminals)]
             Prop(c) == IF is_terminal(c.ty, non_terminals) THEN <<0, 1>>
                        ELSE <<c.nodes, c.distance_to_term>>
         IN [ty |-> i.ty, kids |-> children,
             nodes |-> number_of_nodes([k \in DOMAIN children |-> Prop(children[k])]),
             depth |-> depth,
             distance_to_term |->
                 1 + SeqMax([k \in DOMAIN children |-> Prop(children[k])[2]])]

\* treebased.py 365-395
relabel_nodes_of_trees(i, non_terminals) == relabel_nodes(i, 1, non_terminals)

(***************************************************************************)
(* PI_Grow, one queue entry at a time.  A PI_Grow state is                 *)
(* [root, prod_queue, raised]: prod_queue holds the paths of the queued    *)
(* objects inside root (the empty path is root itself).                    *)
(***************************************************************************)
RemoveAt(s, k) == SubSeq(s, 1, k - 1) \o SubSeq(s, k + 1, Len(s))

\* lines 221-222
GrowBegin(gr, depth, starting_symbol, rnd) ==
    LET e == expand_node(gr, depth, starting_symbol, rnd)
    IN IF e.obj.ty = "Raised"
       THEN [root |-> e.obj, prod_queue |-> << >>, raised |-> TRUE,
             used |-> e.used, drawn |-> e.drawn]
       ELSE [root |-> e.obj, prod_queue |-> << << >> >>, raised |-> FALSE,
             used |-> e.used, drawn |-> e.drawn]

\* one iteration of "while prod_queue" (lines 225-233); index is the value of
\* r.randint(0, len(prod_queue) - 1)
GrowStep(gr, st, index, rnd) ==
    LET path == st.prod_queue[index + 1]
        rest == RemoveAt(st.prod_queue, index + 1)
        future == GetAt(st.root, path)
    IN IF future.ty = "Future"
       THEN LET e == expand_node(gr, future.depth, future.argt, rnd)
            IN IF e.obj.ty = "Raised"
               THEN [root |-> e.obj, prod_queue |-> << >>, raised |-> TRUE,
                     used |-> e.used + 1, drawn |-> <<index>> \o e.drawn]
               ELSE [root |-> SetAt(st.root, path, e.obj),
                     prod_queue |-> rest \o extract_futures(e.obj, path),
                     raised |-> FALSE, used |-> e.used + 1,
                     drawn |-> <<index>> \o e.drawn]
       ELSE [root |-> st.root,
             prod_queue |-> rest \o extract_futures(future, path),
             raised |-> FALSE, used |-> 1, drawn |-> <<index>>]

\* lines 235-236
GrowEnd(gr, st) == relabel_nodes_of_trees(st.root, gr.non_terminals)

(***************************************************************************)
(* PI_Grow as a whole: every Future is resolved by its own callback with   *)
(* its own depth, so the trees PI_Grow can return are the completions of   *)
(* the root object, whatever the order of the queue.                       *)
(***************************************************************************)
RECURSIVE Combos(_)
\* the sequences that take their n-th element from the n-th set
Combos(sets) ==
    IF sets = << >> THEN {<< >>}
    ELSE {<<h>> \o t : h \in sets[1], t \in Combos(Tail(sets))}

\* a loop that takes the root off the queue and resolves no Future
CompletionsNone(gr, obj) == {obj}

\* the objects (or the Raised value) expand_node can return, over all draws
Expansions(gr, depth, starting_symbol) ==
    {expand_node(gr, depth, starting_symbol, rnd).obj : rnd \in DrawSeqs}

RECURSIVE Completions(_, _)
\* the objects obj can become once every Future below it has been resolved;
\* a Raised value stands for a run in which one of the callbacks raises
Completions(gr, obj) ==
    IF obj.ty = "Future"
    THEN UNION {IF e.ty = "Raised" THEN {e} ELSE Completions(gr, e)
                : e \in Expansions(gr, obj.depth, obj.argt)}
    ELSE IF IsNode(obj)
    THEN LET per == [n \in DOMAIN obj.kids |-> Completions(gr, obj.kids[n])]
             ok == [n \in DOMAIN per |-> {c \in per[n] : c.ty # "Raised"}]
         IN {[obj EXCEPT !.kids = ks] : ks \in Combos(ok)}
            \cup UNION {{c \in per[n] : c.ty = "Raised"} : n \in DOMAIN per}
    ELSE {obj}

\* treebased.py 212-236 (random_node): the set of outcomes over all draws
PI_Grow(gr, depth, starting_symbol) ==
    UNION {IF e.ty = "Raised" THEN {e}
           ELSE {IF c.ty = "Raised" THEN c
                 ELSE relabel_nodes_of_trees(c, gr.non_terminals)
                 : c \in Completions(gr, e)}
           : e \in Expansions(gr, depth, starting_symbol)}

\* random_individual without the test of lines 243-252
random_individual_unchecked(gr, max_depth) ==
    PI_Grow(gr, max_depth, gr.starting_symbol)

\* treebased.py 242-255: the set of outcomes
random_individual(gr, max_depth) ==
    IF ~(max_depth >= get_min_tree_depth(gr))
    THEN IF get_min_tree_depth(gr) = INF
         THEN {Raised("minimal tree depth is the default tree depth")}
         ELSE {Raised("Max depth is smaller than minimal tree depth")}
    ELSE PI_Grow(gr, max_depth, gr.starting_symbol)

(***************************************************************************)
(* mutate_inner / tree_crossover_inner: the walk to the selected node.     *)
(***************************************************************************)
\* no child taken to have a size
HasNodesNever(x) == FALSE

\* line 271: hasattr(child, "nodes")
HasNodes(x) == IsNode(x)

RECURSIVE Walk(_, _)
RECURSIVE Scan(_, _, _, _)
\* the outcomes of the recursive descent from object i (at path): the path of
\* the node at which c = 0 was drawn (hit), or of the node returned as it is
Walk(i, path) ==
    IF i.nodes > 0
    THEN UNION {IF c = 0 THEN {[path |-> path, hit |-> TRUE]}
                ELSE Scan(i, path, c, 1) : c \in 0..(i.nodes - 1)}
    ELSE {[path |-> path, hit |-> FALSE]}

\* "for field in i.__annotations__" from field number k on, with counter c
Scan(i, path, c, k) ==
    IF k > Len(i.kids) THEN {[path |-> path, hit |-> FALSE]}
    ELSE LET child == i.kids[k]
         IN IF HasNodes(child)
            THEN IF c <= child.nodes THEN Walk(child, Append(path, k))
                 ELSE Scan(i, path, c - child.nodes, k + 1)
            ELSE Scan(i, path, c, k + 1)

RECURSIVE find_in_tree(_, _, _, _)
\* treebased.py 289-295: the paths (in o, below path) of the yielded objects
find_in_tree(ty, o, path, max_depth) ==
    LET here == IF IsNode(o) /\ ty = Parent(o.ty) /\ o.distance_to_term <= max_depth
                THEN <<path>> ELSE << >>
        RECURSIVE Below(_)
        Below(k) == IF k > Len(o.kids) THEN << >>
                    ELSE find_in_tree(ty, o.kids[k], Append(path, k), max_depth)
                         \o Below(k + 1)
    IN IF IsNode(o) THEN here \o Below(1) ELSE here

\* find_in_tree reads distance_to_term of every object whose class derives
\* directly from ty: an int below o raises AttributeError when ty is object
RECURSIVE FindRaises(_, _)
FindRaises(ty, o) ==
    IF IsNode(o) THEN \E k \in DOMAIN o.kids : FindRaises(ty, o.kids[k])
    ELSE ty = "object"

\* the whole budget handed on, whatever the depth of the selected node
RemainingBudgetWhole(max_depth, i) == max_depth

\* the budget left at the selected node counted one level too many
RemainingBudgetOffByOne(max_depth, i) == max_depth - i.depth + 2

\* lines 264, 306 and 311: the budget left at the selected node i
RemainingBudget(max_depth, i) == max_depth - i.depth + 1

\* what an inner call did to the tree: the node it stopped at (path), and
\* either the object it returned in its place (replace: obj, taken from the
\* donor at path donor when shared) or the reason why it returned the node
\* itself (keep: cause is "miss" when no node was selected, and the message
\* of the exception caught otherwise)
Keep(path, cause) ==
    [kind |-> "keep", path |-> path, obj |-> NoTree, donor |-> << >>,
     shared |-> FALSE, cause |-> cause]

Replace(path, obj, donor, shared) ==
    [kind |-> "replace", path |-> path, obj |-> obj, donor |-> donor,
     shared |-> shared, cause |-> ""]

Escaped(path, err) ==
    [kind |-> "raise", path |-> path, obj |-> NoTree, donor |-> << >>,
     shared |-> FALSE, cause |-> err]

\* the exception of random_node handed on to the caller
Uncaught(path, err) == Escaped(path, err)

\* lines 263-267 and 309-312: "try: replacement = random_node(...)" followed
\* by "except: return i"
Caught(path, err) == Keep(path, err)

\* the type of the first field of the selected node
ReplacedTypeFirstField(n) == get_arguments(n.ty)[1][2]

\* lines 262 and 303: ty = i.__class__.__bases__[0]
ReplacedType(n) == Parent(n.ty)

\* the edits mutate_inner can make to the tree i
mutate_inner(gr, i, max_depth) ==
    UNION {IF ~w.hit THEN {Keep(w.path, "miss")}
           ELSE LET n == GetAt(i, w.path)
                    ty == ReplacedType(n)
                IN {IF replacement.ty = "Raised" THEN Caught(w.path, replacement.err)
                    ELSE Replace(w.path, replacement, << >>, FALSE)
                    : replacement \in PI_Grow(gr, RemainingBudget(max_depth, n), ty)}
           : w \in Walk(i, << >>)}

\* the edits tree_crossover_inner can make to the tree i with donor o
tree_crossover_inner(gr, i, o, max_depth) ==
    UNION {IF ~w.hit THEN {Keep(w.path, "miss")}
           ELSE LET n == GetAt(i, w.path)
                    ty == ReplacedType(n)
                    budget == RemainingBudget(max_depth, n)
                    options == find_in_tree(ty, o, << >>, budget)
                IN IF FindRaises(ty, o) THEN {Escaped(w.path, "AttributeError")}
                   ELSE IF options # << >>
                   THEN {Replace(w.path, GetAt(o, options[k]), options[k], TRUE)
                         : k \in DOMAIN options}
                   ELSE {IF replacement.ty = "Raised"
                         THEN Caught(w.path, replacement.err)
                         ELSE Replace(w.path, replacement, << >>, FALSE)
                         : replacement \in PI_Grow(gr, budget, ty)}
           : w \in Walk(i, << >>)}

(***************************************************************************)
(* Objects.  A store maps cells (object identities) to tree values; a      *)
(* reference is [cell, path].  deepcopy(src, fresh) is the reference       *)
(* returned by deepcopy: the fresh cell, which holds an equal value;       *)
(* deepcopy_alias is a copy that hands the object itself back.             *)
(***************************************************************************)
deepcopy_alias(src, fresh) == src

deepcopy(src, fresh) == fresh

Copy(store, src, fresh) == Put(store, fresh, store[src])

Ref(cell, path) == [cell |-> cell, path |-> path]

\* the store and the returned reference after edit e was made by an inner
\* call on the object of cell ic with the donor of cell oc, followed by
\* relabel_nodes_of_trees on what the inner call returned
ApplyEdit(gr, store, ic, oc, newcell, e) ==
    IF e.kind = "keep"
    THEN [store |-> [store EXCEPT ![ic] =
                        relabel_nodes_of_trees(@, gr.non_terminals)],
          ret |-> Ref(ic, << >>)]
    ELSE IF e.path = << >>
    THEN IF e.shared
         THEN \* the donor object itself is returned and relabelled in place
              [store |-> [store EXCEPT ![oc] =
                             SetAt(@, e.donor,
                                   relabel_nodes_of_trees(e.obj, gr.non_terminals))],
               ret |-> Ref(oc, e.donor)]
         ELSE [store |-> Put(store, newcell,
                             relabel_nodes_of_trees(e.obj, gr.non_terminals)),
               ret |-> Ref(newcell, << >>)]
    ELSE LET edited == relabel_nodes_of_trees(SetAt(store[ic], e.path, e.obj),
                                              gr.non_terminals)
             s1 == [store EXCEPT ![ic] = edited]
         IN [store |-> IF e.shared
                       THEN [s1 EXCEPT ![oc] = SetAt(@, e.donor, GetAt(edited, e.path))]
                       ELSE s1,
             ret |-> Ref(ic, << >>)]

Deref(store, ref) == GetAt(store[ref.cell], ref.path)

\* the cells of the arguments of a call
ArgCells == {"p1", "p2"}

\* the returned object is not an argument of the call, nor a part of one
Fresh(ref) == ref.cell \notin ArgCells

\* treebased.py 283-286: the outcomes [input, res, ret, edits] of mutate on
\* tree i: the value of the input object after the call, the returned tree,
\* whether the returned object is a fresh one, and what mutate_inner did
mutate(gr, i, max_depth) ==
    LET s0 == Copy([p1 |-> i], "p1", "c1")
        w == deepcopy("p1", "c1")
    IN {IF e.kind = "raise"
        THEN [input |-> <<s0["p1"]>>, res |-> <<Raised(e.cause)>>,
              ret |-> << >>, edits |-> <<e>>]
        ELSE LET a == ApplyEdit(gr, s0, w, w, "n1", e)
             IN [input |-> <<a.store["p1"]>>, res |-> <<Deref(a.store, a.ret)>>,
                 ret |-> <<Fresh(a.ret)>>, edits |-> <<e>>]
        : e \in mutate_inner(gr, s0[w], max_depth)}

\* one "tree_crossover_inner(r, g, deepcopy(base), deepcopy(donor), max_depth)"
\* followed by relabel_nodes_of_trees (lines 340-341 and 342-343), on the
\* argument cells of store: the outcomes [store, ret, raised], store being
\* the argument cells afterwards and cell "r" the returned object when it
\* is none of them
CrossoverHalf(gr, store, base, donor, max_depth) ==
    LET s0 == Copy(Copy(store, base, "c1"), donor, "c2")
        i == deepcopy(base, "c1")
        o == deepcopy(donor, "c2")
    IN {IF e.kind = "raise"
        THEN [store |-> store, ret |-> Ref("r", << >>), raised |-> TRUE,
              edit |-> e]
        ELSE LET a == ApplyEdit(gr, s0, i, o, "n1", e)
             IN IF Fresh(a.ret)
                THEN [store |-> [p1 |-> a.store["p1"], p2 |-> a.store["p2"],
                                 r |-> Deref(a.store, a.ret)],
                      ret |-> Ref("r", << >>), raised |-> FALSE, edit |-> e]
                ELSE [store |-> [p1 |-> a.store["p1"], p2 |-> a.store["p2"]],
                      ret |-> a.ret, raised |-> FALSE, edit |-> e]
        : e \in tree_crossover_inner(gr, s0[i], s0[o], max_depth)}

\* treebased.py 334-344: the outcomes [input, res, ret] of tree_crossover
tree_crossover(gr, p1, p2, max_depth) ==
    LET firsts == CrossoverHalf(gr, [p1 |-> p1, p2 |-> p2], "p1", "p2", max_depth)
        args == {[p1 |-> a.store["p1"], p2 |-> a.store["p2"]] : a \in firsts}
    IN UNION {
         LET seconds == CrossoverHalf(gr, s, "p2", "p1", max_depth)
         IN {IF a.raised \/ b.raised
             THEN [input |-> IF a.raised THEN <<a.store["p1"], a.store["p2"]>>
                             ELSE <<b.store["p1"], b.store["p2"]>>,
                   res |-> <<Raised(IF a.raised THEN a.edit.cause
                                    ELSE b.edit.cause)>>,
                   ret |-> << >>,
                   edits |-> IF a.raised THEN <<a.edit>> ELSE <<a.edit, b.edit>>]
             ELSE [input |-> <<b.store["p1"], b.store["p2"]>>,
                   res |-> <<IF Fresh(a.ret) THEN a.store["r"]
                             ELSE Deref(b.store, a.ret),
                             Deref(b.store, b.ret)>>,
                   ret |-> <<Fresh(a.ret), Fresh(b.ret)>>,
                   edits |-> <<a.edit, b.edit>>]
             : a \in {x \in firsts : x.store["p1"] = s["p1"] /\ x.store["p2"] = s["p2"]},
               b \in seconds}
         : s \in args}

(***************************************************************************)
(* The callers: a population of two individuals, and the call in progress. *)
(* call records the last call: its operation, budget, the population slots *)
(* and values of its arguments (ins, before), the trees it returned or the *)
(* exception it raised (res), whether each returned object is fresh (ret), *)
(* and what each inner call of mutate or tree_crossover did (edits).       *)
(***************************************************************************)
Slots == 1..2

NoCall == [op |-> "none", max_depth |-> 0, sym |-> "", ins |-> << >>,
           before |-> << >>, res |-> << >>, ret |-> << >>, edits |-> << >>]

Ready == pre.pc = "ready" /\ g.raised = "none" /\ call.op = "none"

InitTrees ==
    /\ pop = [k \in Slots |-> NoTree]
    /\ call = NoCall

\* extract_grammar(considered_subtypes, starting_symbol)
ExtractGrammar ==
    /\ pre.pc = "constructed"
    /\ g' \in Extractions[NameOf(g)]
    /\ pre' = PreIdle("ready")
    /\ UNCHANGED <<pop, call, grow, hist, ev, gengy, par>>

\* random_individual(r, g, max_depth)
RandomIndividual ==
    /\ Ready
    /\ \E d \in 0..MaxDepth : \E o \in random_individual(g, d) :
          call' = [NoCall EXCEPT !.op = "random_individual", !.max_depth = d,
                                 !.sym = g.starting_symbol, !.res = <<o>>,
                                 !.ret = <<Fresh(Ref("n1", << >>))>>]
    /\ UNCHANGED <<g, pre, pop, grow, hist, ev, gengy, par>>

\* random_node keeping the symbol it was asked for in the grammar, as a
\* cache of the lookups of filter_choices would
RandomNodeCaching ==
    /\ Ready
    /\ \E d \in 0..MaxDepth : \E ty \in get_all_symbols(g) :
       \E o \in PI_Grow(g, d, ty) :
          /\ call' = [NoCall EXCEPT !.op = "random_node", !.max_depth = d,
                                    !.sym = ty, !.res = <<o>>,
                                    !.ret = <<Fresh(Ref("n1", << >>))>>]
          /\ g' = [g EXCEPT !.recursive_prods = @ \cup {ty}]
    /\ UNCHANGED <<pre, pop, grow, hist, ev, gengy, par>>

\* random_node(r, g, depth, starting_symbol)
RandomNode ==
    /\ Ready
    /\ \E d \in 0..MaxDepth : \E ty \in get_all_symbols(g) :
       \E o \in PI_Grow(g, d, ty) :
          call' = [NoCall EXCEPT !.op = "random_node", !.max_depth = d,
                                 !.sym = ty, !.res = <<o>>,
                                 !.ret = <<Fresh(Ref("n1", << >>))>>]
    /\ UNCHANGED <<g, pre, pop, grow, hist, ev, gengy, par>>

\* mutate(r, g, pop[1], max_depth); the individuals reach either slot
\* through Adopt, so that the first slot holds every possible argument
Mutate ==
    /\ Ready
    /\ \E k \in {1} : \E d \in 0..MaxDepth :
          /\ pop[k] # NoTree
          /\ \E o \in mutate(g, pop[k], d) :
                /\ call' = [NoCall EXCEPT !.op = "mutate", !.max_depth = d,
                                          !.ins = <<k>>, !.before = <<pop[k]>>,
                                          !.res = o.res, !.ret = o.ret,
                                          !.edits = o.edits]
                /\ pop' = [pop EXCEPT ![k] = o.input[1]]
    /\ UNCHANGED <<g, pre, grow, hist, ev, gengy, par>>

\* tree_crossover(r, g, pop[1], pop[2], max_depth); the two slots may hold
\* the same tree
Crossover ==
    /\ Ready
    /\ \E k1 \in {1}, k2 \in {2} : \E d \in 0..MaxDepth :
          /\ pop[k1] # NoTree /\ pop[k2] # NoTree
          /\ \E o \in tree_crossover(g, pop[k1], pop[k2], d) :
                /\ call' = [NoCall EXCEPT !.op = "tree_crossover", !.max_depth = d,
                                          !.ins = <<k1, k2>>,
                                          !.before = <<pop[k1], pop[k2]>>,
                                          !.res = o.res, !.ret = o.ret,
                                          !.edits = o.edits]
                /\ pop' = [k \in Slots |-> IF k = k2 THEN o.input[2]
                                           ELSE IF k = k1 THEN o.input[1]
                                           ELSE pop[k]]
    /\ UNCHANGED <<g, pre, grow, hist, ev, gengy, par>>

\* the caller keeps one of the returned trees as an individual; the
\* individuals of a population are trees made for the starting symbol
Adopt ==
    /\ call.op # "none"
    /\ call.op = "random_node" => call.sym = g.starting_symbol
    /\ \E n \in DOMAIN call.res : \E k \in Slots :
          /\ IsNode(call.res[n])
          /\ call.res[n].nodes <= MaxNodes
          /\ pop' = [pop EXCEPT ![k] = call.res[n]]
    /\ call' = NoCall
    /\ UNCHANGED <<g, pre, grow, hist, ev, gengy, par>>

\* the caller drops what the call returned or catches what it raised
Drop ==
    /\ call.op # "none"
    /\ call' = NoCall
    /\ UNCHANGED <<g, pre, pop, grow, hist, ev, gengy, par>>

(***************************************************************************)
(* random_node, one statement at a time.  grow is the frame of the running *)
(* PI_Grow: its position, arguments, root, queue, and tape, the values the *)
(* random source has returned so far.  hist is the seed under test: once a *)
(* run has ended the caller may seed an identical source and call again    *)
(* with the same arguments; the identical source returns the values of     *)
(* hist.tape one after the other, hist.pos being the number returned.      *)
(* The second call may be made in another process: the grammar is then     *)
(* extracted anew from the same classes, and the set all_sym of preprocess *)
(* is iterated in an order of its own.                                     *)
(***************************************************************************)
GrowIdle == [pc |-> "idle", depth |-> 0, sym |-> "", root |-> NoTree,
             prod_queue |-> << >>, tape |-> << >>]

NoHist == [replay |-> FALSE, depth |-> 0, sym |-> "", tape |-> << >>,
           result |-> NoTree, pos |-> 0]

InitGrow ==
    /\ grow = GrowIdle
    /\ hist = NoHist

\* the next draws of the re-seeded source, from position pos of the tape
Feed(tape, pos) ==
    [k \in 1..ExpandDraws |-> IF pos + k <= Len(tape) THEN tape[pos + k] ELSE 0]

\* the frame after lines 221-222 or after one iteration of the loop
Frame(d, ty, st, tape) ==
    [pc |-> IF st.raised THEN "raised" ELSE "while", depth |-> d, sym |-> ty,
     root |-> st.root, prod_queue |-> st.prod_queue, tape |-> tape \o st.drawn]

\* random_node(r, g, d, ty) is called with a freshly seeded source
GrowStart ==
    /\ pre.pc = "ready" /\ g.raised = "none"
    /\ grow.pc = "idle" /\ ~hist.replay
    /\ \E d \in 0..GrowDepth : \E ty \in get_all_symbols(g) : \E rnd \in DrawSeqs :
          grow' = Frame(d, ty, GrowBegin(g, d, ty, rnd), << >>)
    /\ UNCHANGED <<g, pre, pop, call, hist, ev, gengy, par>>

\* one iteration of "while prod_queue"
GrowPop ==
    /\ grow.pc = "while" /\ grow.prod_queue # << >> /\ ~hist.replay
    /\ \E u \in 0..(Len(grow.prod_queue) - 1) : \E rnd \in DrawSeqs :
          LET index == randint(0, Len(grow.prod_queue) - 1, u)
          IN grow' = Frame(grow.depth, grow.sym, GrowStep(g, grow, index, rnd),
                           grow.tape)
    /\ UNCHANGED <<g, pre, pop, call, hist, ev, gengy, par>>

\* the queue is empty: lines 235-236
GrowReturn ==
    /\ grow.pc = "while" /\ grow.prod_queue = << >>
    /\ grow' = [grow EXCEPT !.pc = "done", !.root = GrowEnd(g, grow)]
    /\ UNCHANGED <<g, pre, pop, call, hist, ev, gengy, par>>

\* the caller keeps the outcome, extracts the grammar again from the same
\* classes and seeds a second source identically
Reseed ==
    /\ grow.pc \in {"done", "raised"} /\ ~hist.replay
    /\ g' \in Extractions[NameOf(g)]
    /\ hist' = [replay |-> TRUE, depth |-> grow.depth, sym |-> grow.sym,
                tape |-> grow.tape, result |-> grow.root, pos |-> 0]
    /\ grow' = GrowIdle
    /\ UNCHANGED <<pre, pop, call, ev, gengy, par>>

\* random_node is called again with the same arguments and the second source
ReplayStart ==
    /\ grow.pc = "idle" /\ hist.replay /\ hist.pos = 0
    /\ LET st == GrowBegin(g, hist.depth, hist.sym, Feed(hist.tape, 0))
       IN /\ grow' = Frame(hist.depth, hist.sym, st, << >>)
          /\ hist' = [hist EXCEPT !.pos = st.used]
    /\ UNCHANGED <<g, pre, pop, call, ev, gengy, par>>

\* one iteration of "while prod_queue" of the second call
ReplayPop ==
    /\ grow.pc = "while" /\ grow.prod_queue # << >> /\ hist.replay
    /\ LET index == randint(0, Len(grow.prod_queue) - 1, Feed(hist.tape, hist.pos)[1])
           st == GrowStep(g, grow, index, Feed(hist.tape, hist.pos + 1))
       IN /\ grow' = Frame(grow.depth, grow.sym, st, grow.tape)
          /\ hist' = [hist EXCEPT !.pos = @ + st.used]
    /\ UNCHANGED <<g, pre, pop, call, ev, gengy, par>>

\* the caller is done with the outcome of random_node
GrowFinish ==
    /\ grow.pc \in {"done", "raised"}
    /\ grow' = GrowIdle
    /\ hist' = NoHist
    /\ UNCHANGED <<g, pre, pop, call, ev, gengy, par>>

(***************************************************************************)
(* The Evaluator.  ev holds the evaluator's count, the fitness store of    *)
(* each Individual object (a value per problem, or NoFitness), the number  *)
(* of calls of the fitness function made so far (calls), whether one of    *)
(* them was made for an individual that had a fitness (repeated), and the  *)
(* last call of eval or eval_single: its problem, its individuals and the  *)
(* stores and count it started from.                                       *)
(***************************************************************************)
Individuals == 1..NumIndividuals

Problems == {"p1", "p2"}

\* a fitness_store entry: the fitness recorded for a problem, if any
NoFitness == [set |-> FALSE, val |-> 0]

Recorded(val) == [set |-> TRUE, val |-> val]

\* Individual(genotype, genotype_to_phenotype): no fitness for any problem
Individual == [p \in Problems |-> NoFitness]

has_fitness(individual, p) == individual[p].set

set_fitness(individual, p, fitness) == [individual EXCEPT ![p] = fitness]

\* the fitness the fitness function of p returns for the phenotype
Fitness(p, phenotype) == Recorded(phenotype)

\* p.evaluate(phenotype=individual.get_phenotype()): the fitness function
\* of p is called
evaluate(st, p, i) ==
    [st EXCEPT !.calls = @ + 1,
               !.repeated = @ \/ has_fitness(st.inds[i], p)]

\* evaluators.py 16-17
register_evaluation(st) == [st EXCEPT !.count = @ + 1]

\* every individual evaluated, whether it has a fitness or not
eval_single_uncached(st, p, i) ==
    register_evaluation(
        [evaluate(st, p, i) EXCEPT !.inds[i] = set_fitness(@, p, Fitness(p, i))])

\* evaluators.py 22-26
eval_single(st, p, i) ==
    IF ~has_fitness(st.inds[i], p)
    THEN register_evaluation(
             [evaluate(st, p, i) EXCEPT !.inds[i] = set_fitness(@, p, Fitness(p, i))])
    ELSE st

RECURSIVE eval(_, _, _)
\* evaluators.py 32-34 (SequentialEvaluator.eval)
eval(st, p, indivs) ==
    IF indivs = << >> THEN st
    ELSE eval(eval_single(st, p, indivs[1]), p, Tail(indivs))

NoEval == [p |-> "", indivs |-> << >>, inds |-> << >>, count |-> 0]

InitEval ==
    ev = [count |-> 0, inds |-> [i \in Individuals |-> Individual],
          calls |-> 0, repeated |-> FALSE, last |-> NoEval]

Started(p, indivs) == [p |-> p, indivs |-> indivs, inds |-> ev.inds, count |-> ev.count]

\* evaluator.eval_single(p, individual)
EvalSingle ==
    /\ ev.calls < MaxCalls
    /\ \E p \in Problems, i \in Individuals :
          ev' = [eval_single(ev, p, i) EXCEPT !.last = Started(p, <<i>>)]
    /\ UNCHANGED <<g, pre, pop, call, grow, hist, gengy, par>>

\* evaluator.eval(p, indivs); an individual may occur twice in the list
Eval ==
    /\ ev.calls + NumIndividuals <= MaxCalls
    /\ \E p \in Problems : \E indivs \in [1..NumIndividuals -> Individuals] :
          ev' = [eval(ev, p, indivs) EXCEPT !.last = Started(p, indivs)]
    /\ UNCHANGED <<g, pre, pop, call, grow, hist, gengy, par>>

\* precache_test.py 40-53 (CacheFitness.iterate): every individual is given
\* the fitness -1 without a call of the fitness function
CacheFitness ==
    /\ \E p \in Problems :
          ev' = [ev EXCEPT !.inds = [i \in Individuals |->
                                        set_fitness(ev.inds[i], p, Recorded(0 - 1))],
                           !.last = NoEval]
    /\ UNCHANGED <<g, pre, pop, call, grow, hist, gengy, par>>

\* mutation.py 47-51 (GenericMutationStep.wrap): an offspring is a new
\* Individual, which takes the place of a member of the population
Wrap ==
    /\ \E i \in Individuals :
          /\ ev.inds[i] # Individual
          /\ ev' = [ev EXCEPT !.inds[i] = Individual, !.last = NoEval]
    /\ UNCHANGED <<g, pre, pop, call, grow, hist, gengy, par>>

(***************************************************************************)
(* The steps of the search loop: SequenceStep and ParallelStep of          *)
(* combinators.py.  par is the frame of one call of                        *)
(* SequenceStep(ParallelStep(steps, weights)).iterate(population,          *)
(* target_size).  An individual is a number; a Python number is a record   *)
(* [kind, val], since a float is no index of a list.                       *)
(***************************************************************************)
MaxSteps == 2
MaxWeight == 2
MaxPop == 3

StepKinds == {"GenericMutationStep", "ElitismStep"}

PyInt(v) == [kind |-> "int", val |-> v]

PyFloat(v) == [kind |-> "float", val |-> v]

\* round(a / b, 0) for ints a >= 0, b > 0: a / b is a float, and round with
\* a second argument returns a float, the nearest whole number, a tie going
\* to the even one
round(a, b) ==
    LET q == a \div b
        r == a % b
    IN PyFloat(IF 2 * r < b THEN q
             ELSE IF 2 * r > b THEN q + 1
             ELSE IF q % 2 = 0 THEN q ELSE q + 1)

\* v + i or end - start of Python numbers: a float if either is one
Arith(a, b, val) ==
    [kind |-> IF "float" \in {a.kind, b.kind} THEN "float" ELSE "int", val |-> val]

RECURSIVE cumsum(_, _)
\* combinators.py 87-93, v the running sum (0 at first)
cumsum(l, v) ==
    IF l = << >> THEN << >>
    ELSE LET w == Arith(v, l[1], v.val + l[1].val)
         IN <<w>> \o cumsum(Tail(l), w)

\* zip(indices, indices[1:])
Ranges(indices) ==
    [n \in 1..(Len(indices) - 1) |-> [start |-> indices[n], end |-> indices[n + 1]]]

\* population[start:end]: a slice takes ints only
Slice(population, start, end) ==
    IF start.kind # "int" \/ end.kind # "int"
    THEN [out |-> << >>, raised |-> "TypeError"]
    ELSE [out |-> SubSeq(population, Min(start.val, Len(population)) + 1,
                         Min(end.val, Len(population))),
          raised |-> "none"]

\* the Individual that wrap makes of a mutated genotype
Mutated(ind) == ind + MaxPop + 1

\* mutation.py 24-47 (GenericMutationStep.iterate): a new Individual for
\* each of population[:target_size]
GenericMutationIterate(population, target_size) ==
    LET head == Slice(population, PyInt(0), target_size)
    IN IF head.raised # "none" THEN head
       ELSE [out |-> [n \in DOMAIN head.out |-> Mutated(head.out[n])],
             raised |-> "none"]

\* ElitismStep.iterate: the target_size best of the population it is given,
\* here the first ones
ElitismIterate(population, target_size) ==
    Slice(population, PyInt(0), target_size)

\* step.iterate(problem, representation, random_source, population,
\* target_size)
StepIterate(step, population, target_size) ==
    IF step = "GenericMutationStep"
    THEN GenericMutationIterate(population, target_size)
    ELSE ElitismIterate(population, target_size)

RECURSIVE ApplySteps(_, _, _, _)
\* combinators.py 68-79: the list of the results of the steps, one for
\* each pair of zip(ranges, self.steps), concatenated; parts are the
\* slices handed to the steps
ApplySteps(population, ranges, steps, n) ==
    IF n > Min(Len(ranges), Len(steps))
    THEN [out |-> << >>, parts |-> << >>, raised |-> "none"]
    ELSE LET part == Slice(population, ranges[n].start, ranges[n].end)
             target_size == Arith(ranges[n].end, ranges[n].start,
                                  ranges[n].end.val - ranges[n].start.val)
         IN IF part.raised # "none"
            THEN [out |-> << >>, parts |-> << >>, raised |-> part.raised]
            ELSE LET res == StepIterate(steps[n], part.out, target_size)
                     rest == ApplySteps(population, ranges, steps, n + 1)
                 IN IF res.raised # "none"
                    THEN [out |-> << >>, parts |-> <<part.out>>, raised |-> res.raised]
                    ELSE [out |-> res.out \o rest.out,
                          parts |-> <<part.out>> \o rest.parts,
                          raised |-> rest.raised]

\* no weights given: ParallelStep(steps) or ParallelStep(steps, None)
NoWeights == [given |-> FALSE, ws |-> << >>]

\* combinators.py 51: weights or [1 for _ in steps]
WeightsOr(weights, steps) ==
    IF ~weights.given \/ weights.ws = << >> THEN [n \in DOMAIN steps |-> 1]
    ELSE weights.ws

\* combinators.py 54-79 (ParallelStep.iterate), self.weights being weights
ParallelIterate(steps, weights, population) ==
    LET total == SeqSum(weights)
    IN IF weights # << >> /\ total = 0
       THEN [out |-> << >>, parts |-> << >>, indices |-> << >>,
             raised |-> "ZeroDivisionError"]
       ELSE LET indices == cumsum([n \in DOMAIN weights |->
                                      round(weights[n] * Len(population), total)],
                                  PyInt(0))
                ranges == Ranges(indices)
                res == ApplySteps(population, ranges, steps, 1)
            IN [out |-> res.out, parts |-> res.parts, indices |-> indices,
                raised |-> res.raised]

ParIdle == [pc |-> "idle", steps |-> << >>, weights |-> NoWeights,
            population |-> << >>, target_size |-> 0, indices |-> << >>,
            parts |-> << >>, out |-> << >>, raised |-> "none"]

InitPar == par = ParIdle

\* the lists of at most n elements of set
ListsOf(set, n) == UNION {[1..k -> set] : k \in 0..n}

\* SequenceStep(ParallelStep(steps, weights)).iterate(.., population,
\* target_size) is called, as GP.evolve calls it, with the size of the
\* population as target_size; ParallelStep.__init__ asserts that there are
\* as many weights as steps
SequenceIterate ==
    /\ par.pc = "idle"
    /\ \E steps \in ListsOf(StepKinds, MaxSteps) :
       \E weights \in {NoWeights} \cup
                      {[given |-> TRUE, ws |-> ws] : ws \in [DOMAIN steps -> 0..MaxWeight]} :
       \E size \in 0..MaxPop :
          par' = [ParIdle EXCEPT !.pc = "step", !.steps = steps, !.weights = weights,
                                 !.population = [n \in 1..size |-> n],
                                 !.target_size = size]
    /\ UNCHANGED <<g, pre, pop, call, grow, hist, ev, gengy>>

\* combinators.py 28-34: population = step.iterate(...), the step being the
\* ParallelStep
ParallelStepIterate ==
    /\ par.pc = "step"
    /\ LET res == ParallelIterate(par.steps, WeightsOr(par.weights, par.steps),
                                  par.population)
       IN par' = [par EXCEPT !.pc = IF res.raised = "none" THEN "assert" ELSE "raised",
                             !.indices = res.indices, !.parts = res.parts,
                             !.out = res.out, !.raised = res.raised]
    /\ UNCHANGED <<g, pre, pop, call, grow, hist, ev, gengy>>

\* combinators.py 36-38: the assertions after the step, and the return
SequenceAssert ==
    /\ par.pc = "assert"
    /\ par' = IF Len(par.out) = par.target_size
              THEN [par EXCEPT !.pc = "returned"]
              ELSE [par EXCEPT !.pc = "raised", !.raised = "AssertionError"]
    /\ UNCHANGED <<g, pre, pop, call, grow, hist, ev, gengy>>

\* the caller takes the result or the exception; the next generation calls
\* iterate again
NextGeneration ==
    /\ par.pc \in {"returned", "raised"}
    /\ par' = ParIdle
    /\ UNCHANGED <<g, pre, pop, call, grow, hist, ev, gengy>>

\* no class of the modelled grammars is declared with a weight
InitGengy == gengy = [ty \in NodeTypes \cup Builtins |-> NoWeight]

Init ==
    /\ InitGrammar
    /\ InitTrees
    /\ InitGrow
    /\ InitEval
    /\ InitGengy
    /\ InitPar

Next ==
    \/ ExtractGrammar
    \/ RandomIndividual
    \/ RandomNode
    \/ Mutate
    \/ Crossover
    \/ Adopt
    \/ Drop

Spec == Init /\ [][Next]_vars

(***************************************************************************)
(* The calls of Spec and update_weights on the extracted grammar.  Once a  *)
(* class has a weight expand_node draws with r.choice_weighted in place of *)
(* r.choice (lines 162-166); the weights update_weights stores are above   *)
(* 0, so the productions that can be drawn are the same.                   *)
(***************************************************************************)
\* one order of visits for each result preprocess can give for grammar gr
Orders(gr) ==
    LET all == Perms(get_all_symbols(register_type(gr, gr.starting_symbol)))
        results == {extract_grammar(GrammarOf(NameOf(gr)), order) : order \in all}
    IN {CHOOSE order \in all : extract_grammar(GrammarOf(NameOf(gr)), order) = r
        : r \in results}

\* computed once for each modelled grammar
UpdateOrders == [name \in GrammarNames |-> Orders(GrammarOf(name))]

\* g.update_weights(learning_rate, extra_weights), with the weights of the
\* grammar itself (as extract_grammar passes them) or with 1 for every
\* class as extra_weights
UpdateWeights ==
    /\ Ready
    /\ \E learning_rate \in 0..MaxRate :
       \E extra_weights \in {get_weights(g, gengy),
                             [prod \in g.all_nodes |-> Frac(1, 1)]} :
       \E order \in UpdateOrders[NameOf(g)] :
          LET u == update_weights(g, gengy, learning_rate, extra_weights, order)
          IN /\ g' = u.gr
             /\ gengy' = u.classes
             /\ call' = [NoCall EXCEPT !.op = "update_weights",
                                       !.max_depth = learning_rate,
                                       !.before = <<g, gengy>>,
                                       !.res = <<IF u.raised = "none" THEN NoTree
                                                 ELSE Raised(u.raised)>>,
                                       !.ret = <<u.ret # "self">>]
    /\ UNCHANGED <<pre, pop, grow, hist, ev, par>>

NextWeights ==
    \/ Next
    \/ UpdateWeights

SpecWeights == Init /\ [][NextWeights]_vars

(***************************************************************************)
(* extract_grammar one statement at a time, for every order in which the   *)
(* loop of preprocess can visit the symbols.                               *)
(***************************************************************************)
\* g.register_alternative(nonterminal, nodetype) called on a constructed
\* Grammar with two of its own classes; the exception it raises is caught
\* by the caller, the Grammar object staying as the call left it
RegisterAlternative ==
    /\ pre.pc \in {"constructed", "alternative"}
    /\ Cardinality({<<k, n>> \in (DOMAIN g.alternatives) \X (1..MaxAlternatives) :
                       n <= Len(g.alternatives[k])}) < MaxAlternatives
    /\ \E nonterminal, nodetype \in
              Range(g.considered_subtypes) \cup {g.starting_symbol} :
          LET r == register_alternative(g, nonterminal, nodetype)
          IN /\ g' = [r EXCEPT !.raised = g.raised]
             /\ call' = [NoCall EXCEPT !.op = "register_alternative",
                                       !.ins = <<nonterminal, nodetype>>,
                                       !.before = <<g.alternatives>>,
                                       !.res = <<IF r.raised = g.raised THEN NoTree
                                                 ELSE Raised(r.raised)>>]
    /\ pre' = PreIdle("alternative")
    /\ UNCHANGED <<pop, grow, hist, ev, gengy, par>>

NextPre ==
    \/ RegisterAlternative
    \/ RegisterStart
    \/ PreprocessStart
    \/ PassBegin
    \/ Visit
    \/ PreprocessFinish

SpecPre == Init /\ [][NextPre]_vars

\* the same steps on a grammar built with or without expansion_depthing
InitDepthing ==
    /\ InitGrammarDepthing
    /\ InitTrees
    /\ InitGrow
    /\ InitEval
    /\ InitGengy
    /\ InitPar

SpecDepthing == InitDepthing /\ [][NextPre]_vars

(***************************************************************************)
(* random_node one statement at a time on an extracted grammar.            *)
(***************************************************************************)
NextGrow ==
    \/ ExtractGrammar
    \/ GrowStart
    \/ GrowPop
    \/ GrowReturn
    \/ Reseed
    \/ ReplayStart
    \/ ReplayPop
    \/ GrowFinish

SpecGrow == Init /\ [][NextGrow]_vars

(***************************************************************************)
(* The evaluator called by the steps of the search loop.                   *)
(***************************************************************************)
NextEval ==
    \/ EvalSingle
    \/ Eval
    \/ CacheFitness
    \/ Wrap

SpecEval == Init /\ [][NextEval]_vars

(***************************************************************************)
(* One generation after the other of SequenceStep(ParallelStep(..)).       *)
(***************************************************************************)
NextSteps ==
    \/ SequenceIterate
    \/ ParallelStepIterate
    \/ SequenceAssert
    \/ NextGeneration

SpecSteps == Init /\ [][NextSteps]_vars

(***************************************************************************)
(* Properties.                                                             *)
(***************************************************************************)
\* isinstance(x, ty); a list[int] is a list of ints
IsInstance(x, ty) ==
    IF is_generic_list(ty)
    THEN x.ty = "list" /\ \A n \in DOMAIN x.kids : x.kids[n].ty = get_generic_parameter(ty)
    ELSE ty \in Mro(x.ty)

RECURSIVE TypeValid(_, _)
\* x is an instance of ty and every field below holds an instance of its
\* declared type
TypeValid(x, ty) ==
    /\ IsInstance(x, ty)
    /\ IsNode(x) =>
          \A n \in DOMAIN x.kids : TypeValid(x.kids[n], get_arguments(x.ty)[n][2])

RECURSIVE TreeDepth(_)
\* the largest depth label of a node of x (0 when x has no node)
TreeDepth(x) ==
    IF IsNode(x)
    THEN SeqMax(<<x.depth>> \o [n \in DOMAIN x.kids |-> TreeDepth(x.kids[n])])
    ELSE 0

IsTree(x) == x.ty \notin {"Raised", "None", "Future"}

Synthesized == call.op \in {"random_individual", "random_node"}

\* the arguments of a mutate or tree_crossover call were trees of the
\* starting symbol, type-valid and within the budget of the call
InputsWithin ==
    \A n \in DOMAIN call.before :
        /\ TypeValid(call.before[n], g.starting_symbol)
        /\ TreeDepth(call.before[n]) <= call.max_depth

\* C1: every tree returned by random_individual, and every tree returned by
\* mutate or tree_crossover for type-valid arguments within the budget, is
\* type-valid: its root is an instance of the starting symbol and every
\* field holds an instance of its declared type.
TypeSafety ==
    \A n \in DOMAIN call.res :
        (/\ IsTree(call.res[n])
         /\ \/ call.op = "random_individual"
            \/ call.op \in {"mutate", "tree_crossover"} /\ InputsWithin)
        => TypeValid(call.res[n], g.starting_symbol)

\* C3: every tree returned by a successful random_node or random_individual
\* call has depth (largest depth label, root = 1) at most the budget.
SynthesisWithinBudget ==
    Synthesized =>
        \A n \in DOMAIN call.res :
            IsTree(call.res[n]) => TreeDepth(call.res[n]) <= call.max_depth

SynthesisReachesBudget ==
    /\ call.op = "random_node"
    /\ call.max_depth >= 2
    /\ IsNode(call.res[1])
    /\ TreeDepth(call.res[1]) = call.max_depth

\* C4: when both arguments of tree_crossover have depth at most max_depth,
\* both returned trees have depth at most max_depth.
CrossoverWithinBudget ==
    (/\ call.op = "tree_crossover"
     /\ \A n \in DOMAIN call.before : TreeDepth(call.before[n]) <= call.max_depth)
    => \A n \in DOMAIN call.res :
           IsTree(call.res[n]) => TreeDepth(call.res[n]) <= call.max_depth

\* a subtree of the second parent was spliced below the root of the first
\* and the result reaches the budget
CrossoverSpliced ==
    /\ call.op = "tree_crossover"
    /\ \A n \in DOMAIN call.before : TreeDepth(call.before[n]) <= call.max_depth
    /\ Len(call.res) = 2
    /\ call.res[1] # call.before[1]
    /\ call.res[1].ty = call.before[1].ty
    /\ call.before[1] # call.before[2]
    /\ TreeDepth(call.res[1]) = call.max_depth

\* C5: when the argument of mutate has depth at most max_depth, the
\* returned tree has depth at most max_depth.
MutateWithinBudget ==
    (/\ call.op = "mutate"
     /\ TreeDepth(call.before[1]) <= call.max_depth)
    => (IsTree(call.res[1]) => TreeDepth(call.res[1]) <= call.max_depth)

\* a replacement was spliced in and the result reaches the budget
MutateSpliced ==
    /\ call.op = "mutate"
    /\ TreeDepth(call.before[1]) < call.max_depth
    /\ call.res[1] # call.before[1]
    /\ TreeDepth(call.res[1]) = call.max_depth

\* C6: after mutate or tree_crossover returns (or raises), each argument
\* has the structure, field values and metadata it had before the call,
\* and no returned object is an argument or a part of one.
InputsUntouched ==
    call.op \in {"mutate", "tree_crossover"} =>
        /\ \A n \in DOMAIN call.ins : pop[call.ins[n]] = call.before[n]
        /\ \A n \in DOMAIN call.ret : call.ret[n]

\* a crossover returned a subtree of the donor as the whole first tree
DonorReturned ==
    /\ call.op = "tree_crossover"
    /\ Len(call.res) = 2
    /\ call.res[1] # call.before[1]
    /\ \E path \in {<<1>>, <<2>>} : IsNode(call.before[2]) /\
          path[1] \in DOMAIN call.before[2].kids /\
          GetAt(call.before[2], path).ty = call.res[1].ty
    /\ call.res[1].ty # call.before[1].ty

\* C9 as stated: a grammar whose starting symbol has infinite distance
\* after preprocessing has been rejected by extract_grammar.
RejectedAtBuild ==
    (pre.pc = "ready" /\ get_min_tree_depth(g) >= INF) => g.raised # "none"

\* C9: a grammar whose starting symbol has infinite distance after
\* preprocessing is accepted by extract_grammar and validate; it is
\* random_individual that rejects it, at its entry, whatever the budget.
RejectedAtSynthesis ==
    (pre.pc = "ready" /\ get_min_tree_depth(g) >= INF) =>
        /\ g.raised = "none"
        /\ call.op = "random_individual" =>
              call.res = <<Raised("minimal tree depth is the default tree depth")>>
        /\ (call.op = "random_node" /\ call.sym = g.starting_symbol) =>
              call.res[1].ty = "Raised"

InfiniteStartRejected ==
    /\ pre.pc = "ready" /\ get_min_tree_depth(g) >= INF
    /\ call.op = "random_individual"
    /\ call.max_depth = MaxDepth
    /\ call.res[1].ty = "Raised"

RECURSIVE PlusOverOne(_)
\* every Plus of x has One as both children
PlusOverOne(x) ==
    IsNode(x) =>
        /\ x.ty = "Plus" => \A n \in DOMAIN x.kids : x.kids[n].ty = "One"
        /\ \A n \in DOMAIN x.kids : PlusOverOne(x.kids[n])

ExprSynthesized(budget) ==
    /\ Synthesized
    /\ g.starting_symbol = "Expr"
    /\ call.sym = "Expr"
    /\ call.max_depth = budget
    /\ IsTree(call.res[1])

RECURSIVE FuturesOfOwnType(_)
\* every Future below x calls expand_node for the declared type of the
\* field it stands in
FuturesOfOwnType(x) ==
    IsNode(x) =>
        \A n \in DOMAIN x.kids :
            /\ x.kids[n].ty = "Future" =>
                  x.kids[n].argt = get_arguments(x.ty)[n][2]
            /\ FuturesOfOwnType(x.kids[n])

\* C2: at every point of PI_Grow, whatever the order in which the queue
\* was consumed, the deferred expansion standing in field ni of a concrete
\* node generates (and checks the distance of) the declared type Ti of ni.
FieldsOfOwnType == grow.pc = "while" => FuturesOfOwnType(grow.root)

RECURSIVE CompletableFrom(_, _)
\* the least set of registered types holding every builtin, every abstract
\* type with an alternative in the set, and every concrete type whose
\* field types are all in the set: the types a finite tree of terminals can
\* be built for
CompletableFrom(gr, done) ==
    LET more == {ty \in get_all_symbols(gr) :
                    \/ ty \in Builtins
                    \/ /\ is_abstract(ty)
                       /\ ty \in DOMAIN gr.alternatives
                       /\ \E k \in DOMAIN gr.alternatives[ty] :
                             gr.alternatives[ty][k] \in done
                    \/ /\ ~is_abstract(ty)
                       /\ \A n \in DOMAIN get_arguments(ty) :
                             LET argt == get_arguments(ty)[n][2]
                             IN IF is_generic_list(argt)
                                THEN get_generic_parameter(argt) \in done
                                ELSE argt \in done}
    IN IF more = done THEN done ELSE CompletableFrom(gr, more)

Completable(gr) == CompletableFrom(gr, {})

\* C8: once preprocess has returned, the distance of a registered type is
\* below INF if and only if a finite tree of terminals can be built for it.
FiniteIffCompletable ==
    pre.pc = "ready" =>
        \A ty \in get_all_symbols(g) :
            g.distanceToTerminal[ty] < INF <=> ty \in Completable(g)

\* preprocess has returned on a grammar with both kinds of types
BothKinds ==
    /\ pre.pc = "ready"
    /\ \E ty \in get_all_symbols(g) : g.distanceToTerminal[ty] < INF
    /\ \E ty \in get_all_symbols(g) :
          ty \notin Builtins /\ ~is_abstract(ty) /\ g.distanceToTerminal[ty] >= INF

RECURSIVE SubNodes(_)
\* the nodes of the tree x, x included
SubNodes(x) ==
    IF IsNode(x)
    THEN {x} \cup UNION {SubNodes(x.kids[n]) : n \in DOMAIN x.kids}
    ELSE {}

\* the trees a caller holds: the returned ones and the individuals
HeldTrees ==
    {call.res[n] : n \in {m \in DOMAIN call.res : IsNode(call.res[m])}}
    \cup {pop[k] : k \in {m \in Slots : IsNode(pop[m])}}

\* the sizes of the children of node x that are nodes themselves
ChildSizes(x) ==
    LET IsChild(n) == IsNode(x.kids[n])
        idx == SelectSeq([n \in DOMAIN x.kids |-> n], IsChild)
    IN [k \in DOMAIN idx |-> x.kids[idx[k]].nodes]

ReplacementAssignable ==
    (call.op = "mutate" /\ call.edits[1].kind = "replace") =>
        LET e == call.edits[1]
            S == Parent(GetAt(call.before[1], e.path).ty)
        IN /\ IsTree(call.res[1])
           /\ IsInstance(GetAt(call.res[1], e.path), S)
           /\ GetAt(call.res[1], e.path).ty = e.obj.ty

\* mutate replaced the whole tree by a tree of another class
WholeTreeReplaced ==
    /\ call.op = "mutate"
    /\ call.edits[1].kind = "replace"
    /\ call.edits[1].path = << >>
    /\ call.res[1].ty # call.before[1].ty

\* the messages of the exceptions expand_node raises for lack of budget
BudgetErrors == {"Recursion Depth reached", "no depth sufficient", "No productions"}

\* C13: mutate never raises, and when random_node at the selected node fails
\* for lack of budget (max_depth - depth + 1 is negative or below the
\* distance of the type) mutate returns a tree equal to its argument, the
\* subtree at the selected node included.
MutateKeepsOnFailure ==
    call.op = "mutate" =>
        /\ IsTree(call.res[1])
        /\ (call.edits[1].kind = "keep" /\ call.edits[1].cause \in BudgetErrors)
           => call.res[1] = call.before[1]

\* random_node failed at a selected node below the root, whose remaining
\* budget was below the distance of its type
ResynthesisFailedBelowRoot ==
    /\ call.op = "mutate"
    /\ call.edits[1].kind = "keep"
    /\ call.edits[1].cause = "no depth sufficient"
    /\ call.edits[1].path # << >>
    /\ call.res[1] = call.before[1]

\* C14: tree_crossover never raises: whatever the trees and the selected
\* nodes, it returns two trees.
CrossoverNeverRaises ==
    call.op = "tree_crossover" =>
        /\ Len(call.res) = 2
        /\ \A n \in DOMAIN call.res : IsTree(call.res[n])

\* the alternatives map after nodetype was put at the end of the list of
\* nonterminal
Appended(alternatives, nonterminal, nodetype) ==
    Put(alternatives, nonterminal,
        Append(IF nonterminal \in DOMAIN alternatives
               THEN alternatives[nonterminal] ELSE << >>, nodetype))

\* C15 as stated: register_alternative on a non-abstract class fails with
\* InvalidGrammarException and leaves the alternatives as they were; on an
\* abstract class it puts nodetype at the end of the class's list.
RegisterAlternativeAsStated ==
    call.op = "register_alternative" =>
        IF is_abstract(call.ins[1])
        THEN /\ call.res[1] = NoTree
             /\ g.alternatives = Appended(call.before[1], call.ins[1], call.ins[2])
        ELSE /\ call.res[1] = Raised("InvalidGrammarException")
             /\ g.alternatives = call.before[1]

\* C15: register_alternative on a non-abstract class fails with a plain
\* Exception and leaves the alternatives as they were; on an abstract class
\* it puts nodetype at the end of the class's list.
RegisterAlternativeEffect ==
    call.op = "register_alternative" =>
        IF is_abstract(call.ins[1])
        THEN /\ call.res[1] = NoTree
             /\ g.alternatives = Appended(call.before[1], call.ins[1], call.ins[2])
        ELSE /\ call.res[1] = Raised("Exception")
             /\ g.alternatives = call.before[1]

\* a registration on a non-abstract class was refused on a Grammar that
\* already held an alternative
AlternativeRefused ==
    /\ call.op = "register_alternative"
    /\ ~is_abstract(call.ins[1])
    /\ call.res[1].ty = "Raised"
    /\ DOMAIN call.before[1] # {}

SynthesisFailsOnlyAtEntry ==
    call.op = "random_node" =>
        (call.res[1].ty = "Raised"
            <=> (call.max_depth < 0
                 \/ call.max_depth < get_distance_to_terminal(g, call.sym)))

\* the alternatives of the abstract type ty that fit the budget b, and among
\* them the ones a choice may fall on
Fitting(gr, ty, b) ==
    {a \in Range(gr.alternatives[ty]) : gr.distanceToTerminal[a] <= b}

Eligible(gr, ty, b) ==
    IF Fitting(gr, ty, b) \cap gr.recursive_prods # {}
    THEN Fitting(gr, ty, b) \cap gr.recursive_prods
    ELSE Fitting(gr, ty, b)

RECURSIVE Derives(_, _, _, _, _)
\* the class made can be reached from ty by eligible choices only (at most
\* fuel of them, an alternative being abstract itself at times)
Derives(gr, ty, b, made, fuel) ==
    IF ty \notin DOMAIN gr.alternatives THEN ty = made
    ELSE fuel > 0 /\ \E a \in Eligible(gr, ty, b) : Derives(gr, a, b, made, fuel - 1)

\* C18: when random_node expands an abstract type with budget b, the class
\* of the object made is one of the alternatives with distance at most b,
\* and a recursive one whenever one of those is recursive; and whenever b is
\* at least the distance of the abstract type, the productions left by
\* filter_choices are not empty.
ChoiceFiltered ==
    (call.op = "random_node" /\ call.sym \in DOMAIN g.alternatives) =>
        /\ IsTree(call.res[1]) =>
              Derives(g, call.sym, call.max_depth, call.res[1].ty,
                      Cardinality(NodeTypes))
        /\ call.max_depth >= get_distance_to_terminal(g, call.sym) =>
              /\ filter_choices(g, g.alternatives[call.sym], call.max_depth) # << >>
              /\ call.res[1].ty = "Raised" => call.res[1].err # "No productions"

\* a recursive alternative was chosen although a non-recursive one fitted
RecursiveChosen ==
    /\ call.op = "random_node"
    /\ call.sym \in DOMAIN g.alternatives
    /\ IsTree(call.res[1])
    /\ call.res[1].ty \in g.recursive_prods
    /\ Fitting(g, call.sym, call.max_depth) \ g.recursive_prods # {}

\* the types one step away from ty: the alternatives of an abstract type,
\* the types of the fields of a concrete one (the class under a sequence)
Successors(gr, ty) ==
    IF is_abstract(ty)
    THEN IF ty \in DOMAIN gr.alternatives THEN Range(gr.alternatives[ty]) ELSE {}
    ELSE {strip_annotations(get_arguments(ty)[n][2]) : n \in DOMAIN get_arguments(ty)}

RECURSIVE Descendants(_, _)
\* the types reachable from the types of from in any number of steps
Descendants(gr, from) ==
    LET more == from \cup UNION {Successors(gr, ty) : ty \in from}
    IN IF more = from THEN from ELSE Descendants(gr, more)

FieldDistance(gr, argt) ==
    IF is_generic_list(argt)
    THEN BoolInt(gr.expansion_depthing)
         + gr.distanceToTerminal[get_generic_parameter(argt)]
    ELSE gr.distanceToTerminal[argt]

\* the least and the greatest number of a finite set, 0 for the empty set
Least(S) == IF S = {} THEN 0 ELSE CHOOSE x \in S : \A y \in S : x <= y

Greatest(S) == IF S = {} THEN 0 ELSE CHOOSE x \in S : \A y \in S : x >= y

\* the equations of an abstract and of a concrete type at ty
EquationHolds(gr, ty) ==
    IF is_abstract(ty)
    THEN /\ ty \in DOMAIN gr.alternatives
         /\ gr.distanceToTerminal[ty]
               = Least({BoolInt(gr.expansion_depthing) + gr.distanceToTerminal[alt] :
                          alt \in Range(gr.alternatives[ty])})
    ELSE gr.distanceToTerminal[ty]
            = 1 + Greatest({FieldDistance(gr, get_arguments(ty)[n][2]) :
                              n \in DOMAIN get_arguments(ty)})

PreprocessTerminates ==
    /\ pre.pc = "while" /\ pre.changed => pre.passes < MaxPasses
    /\ pre.pc \in {"while", "for", "ready"} /\ pre.order # << >> =>
          pre.passes <= Len(pre.order) + 2
    /\ pre.pc = "ready" =>
          \A ty \in get_all_symbols(g) \ Completable(g) :
              g.distanceToTerminal[ty] = INF

\* preprocess has returned after three passes or more on a grammar with a
\* recursive type that cannot be completed
RecursiveFinished ==
    /\ pre.pc = "ready"
    /\ pre.passes >= 3
    /\ \E ty \in g.recursive_prods : g.distanceToTerminal[ty] = INF

RECURSIVE HasFuture(_)
\* a Future is left as a field value or as a list element somewhere in x
HasFuture(x) ==
    \/ x.ty = "Future"
    \/ /\ (IsNode(x) \/ x.ty = "list")
       /\ \E n \in DOMAIN x.kids : HasFuture(x.kids[n])

\* the most draws one call of random_node can make with budget depth: one
\* per queue entry taken and ExpandDraws per expansion, for the root and
\* the at most two fields of every class down to the budget
DrawsWithin(depth) == (1 + ExpandDraws) * (2 ^ (depth + 2))

\* C22 as stated: every call of random_node ends, after a bounded number
\* of draws, with the queue of Futures empty and no Future left in the
\* tree, or with one of the typed failures of expand_node.
SynthesisEnds ==
    /\ grow.pc \in {"while", "done", "raised"} =>
          Len(grow.tape) <= DrawsWithin(grow.depth)
    /\ grow.pc = "done" => ~HasFuture(grow.root)
    /\ grow.pc = "raised" => grow.root.err \in BudgetErrors

RECURSIVE Whole(_)
\* x is a finished value: no Future, no exception and no unset field stands
\* for it or for a field value or a list element anywhere below it
Whole(x) ==
    /\ x.ty \notin {"Future", "Raised", "None"}
    /\ (IsNode(x) \/ x.ty = "list") => \A n \in DOMAIN x.kids : Whole(x.kids[n])

\* the synthesis made for edit e failed
SynthesisFailed(e) == e.kind = "keep" /\ e.cause # "miss"

RECURSIVE Shape(_)
\* the structure of x: its classes and values without the labels of
\* relabel_nodes
Shape(x) ==
    IF IsNode(x) \/ x.ty = "list"
    THEN [ty |-> x.ty, kids |-> [n \in DOMAIN x.kids |-> Shape(x.kids[n])]]
    ELSE x

\* the subtrees of donor that qualify for the slot: a class deriving
\* directly from the supertype of the slot's node and a distance to
\* terminal within the budget left at the slot
Qualifying(donor, slot, max_depth) ==
    {x \in SubNodes(donor) :
        /\ Parent(x.ty) = Parent(slot.ty)
        /\ x.distance_to_term <= max_depth - slot.depth + 1}

\* the slot was chosen in the n-th parent and edit e is what was done there
SlotChosen(e) == ~(e.kind = "keep" /\ e.cause = "miss")

\* C24 as stated: at the slot chosen by tree_crossover in either parent,
\* whenever a subtree of the other parent qualifies (supertype of the slot,
\* distance to terminal at most max_depth - slot depth + 1) the content
\* spliced at the slot is a structural copy of such a subtree, and a
\* freshly synthesised tree is used (or tried) only when none qualifies.
CrossoverPrefersDonor ==
    call.op = "tree_crossover" =>
        \A n \in DOMAIN call.edits :
            LET e == call.edits[n]
                slot == GetAt(call.before[n], e.path)
                Q == Qualifying(call.before[3 - n], slot, call.max_depth)
            IN SlotChosen(e) =>
                  /\ Q # {} =>
                        /\ e.kind = "replace" /\ e.shared /\ e.obj \in Q
                        /\ Len(call.res) = 2 =>
                              Shape(GetAt(call.res[n], e.path)) = Shape(e.obj)
                  /\ (e.kind = "replace" /\ ~e.shared) \/ SynthesisFailed(e) => Q = {}

RECURSIVE NodePaths(_, _)
\* the paths of the nodes of x (at path), those inside lists included
NodePaths(x, path) ==
    IF IsNode(x) \/ x.ty = "list"
    THEN (IF IsNode(x) THEN {path} ELSE {})
         \cup UNION {NodePaths(x.kids[n], Append(path, n)) : n \in DOMAIN x.kids}
    ELSE {}

\* the paths of the nodes of tree t at which the walk can stop with c = 0
Selectable(t) == {w.path : w \in {v \in Walk(t, << >>) : v.hit}}

\* the trees mutate and tree_crossover are called on
Parents == {pop[k] : k \in {m \in Slots : IsNode(pop[m])}}

\* every walk through a tree of size above 0 stops at a node, in the model
\* of the walk and in the calls made
WalkLocates ==
    /\ \A t \in Parents : t.nodes > 0 => \A w \in Walk(t, << >>) : w.hit
    /\ call.op \in {"mutate", "tree_crossover"} =>
          \A n \in DOMAIN call.edits :
              call.before[n].nodes > 0 => SlotChosen(call.edits[n])

\* C25 as stated: every position drawn in a tree leads the walk to a
\* target node, and every node of the tree, the nodes without fields
\* included, is the target of some position.
EveryNodeSelectable ==
    /\ WalkLocates
    /\ \A t \in Parents : Selectable(t) = NodePaths(t, << >>)

\* C25: every position drawn in a tree leads the walk to a target node,
\* and the nodes that are the target of some position are the nodes with
\* at least one field (size above 0) outside sequence fields; a node
\* without fields has size 0 and is never the target.
InnerNodesSelectable ==
    /\ WalkLocates
    /\ \A t \in Parents :
          Selectable(t) = {p \in NodePaths(t, << >>) : GetAt(t, p).nodes > 0}

\* mutate replaced a node below the root of a tree that also has a node
\* without fields
InnerNodeChosen ==
    /\ call.op = "mutate"
    /\ call.edits[1].kind = "replace"
    /\ call.edits[1].path # << >>
    /\ \E p \in NodePaths(call.before[1], << >>) : GetAt(call.before[1], p).nodes = 0

\* C27 as stated: update_weights returns a new Grammar, and leaves the
\* Grammar it was called on and the weights kept with the classes, which
\* every other grammar over these classes reads, as they were.
UpdateWeightsPure ==
    (call.op = "update_weights" /\ call.res[1].ty # "Raised") =>
        /\ call.ret[1]
        /\ g = call.before[1]
        /\ gengy = call.before[2]

\* C26: once the grammar is preprocessed, a call of random_individual,
\* random_node, mutate or tree_crossover leaves every field of the Grammar
\* (alternatives, all_nodes, terminals, non_terminals, recursive_prods,
\* distanceToTerminal) and the weights kept with the classes as they were,
\* whatever calls came before it on the same grammar.
SynthesisCalls == {"random_individual", "random_node", "mutate", "tree_crossover"}

Carried(err) ==
    CASE err = "Recursion Depth reached" -> {}
      [] err = "no depth sufficient" -> {"type", "budget", "required"}
      [] err = "not in grammar rules" -> {"type"}
      [] err = "No productions" -> {"type", "budget", "required"}
      [] err = "minimal tree depth is the default tree depth" -> {"required"}
      [] err = "Max depth is smaller than minimal tree depth" -> {"budget", "required"}
      [] err = "KeyError" -> {"type"}
      [] OTHER -> {}

\* the two failures of synthesis: the recursion depth is exhausted, no
\* production is valid within the budget
DepthExhausted == {"Recursion Depth reached"}

NoValidProduction == {"no depth sufficient", "No productions"}

\* the failures raised by the last call: by random_node and
\* random_individual to the caller, by the synthesis inside mutate and
\* tree_crossover to mutate_inner and tree_crossover_inner
FailuresRaised ==
    IF call.op \in {"random_node", "random_individual"}
    THEN {call.res[n].err : n \in {n \in DOMAIN call.res : call.res[n].ty = "Raised"}}
    ELSE IF call.op \in {"mutate", "tree_crossover"}
    THEN {call.edits[n].cause :
            n \in {n \in DOMAIN call.edits : SynthesisFailed(call.edits[n])}}
    ELSE {}

\* C28 as stated: every failure raised by synthesis, also inside mutate and
\* tree_crossover, is one of the two failures, recursion depth exhausted or
\* no valid production within budget, and carries the offending type and
\* the budget.
FailuresTyped ==
    \A err \in FailuresRaised :
        /\ err \in DepthExhausted \cup NoValidProduction
        /\ {"type", "budget"} \subseteq Carried(err)

\* the individuals of the parts, one part after the other
Flatten(parts) ==
    [n \in 1..SeqSum([k \in DOMAIN parts |-> Len(parts[k])]) |->
        LET k == CHOOSE k \in DOMAIN parts :
                    /\ n > SeqSum([j \in 1..(k - 1) |-> Len(parts[j])])
                    /\ n <= SeqSum([j \in 1..k |-> Len(parts[j])])
        IN parts[k][n - SeqSum([j \in 1..(k - 1) |-> Len(parts[j])])]]

\* C29 as stated: with one step or more and weights above 0, ParallelStep
\* hands every individual to exactly one step, the parts being consecutive
\* and making up the population, the result has as many individuals as the
\* population, and the assertion of SequenceStep holds, so the call returns.
ParallelStepSplits ==
    (/\ par.pc \in {"returned", "raised"}
     /\ par.steps # << >>
     /\ \A n \in DOMAIN WeightsOr(par.weights, par.steps) :
           WeightsOr(par.weights, par.steps)[n] > 0) =>
        /\ par.pc = "returned"
        /\ Len(par.parts) = Len(par.steps)
        /\ Flatten(par.parts) = par.population
        /\ Len(par.out) = Len(par.population)

\* for each modelled grammar, the order of all_sym that the orders of the
\* runs are compared with
ReferenceOrder ==
    [name \in GrammarNames |->
        CHOOSE order \in Perms(get_all_symbols(
                   register_type(GrammarOf(name), StartingSymbol(name)))) : TRUE]

\* the registered grammar of the given name and mode, before preprocess
Registered(name, expansion_depthing) ==
    register_type([GrammarOf(name) EXCEPT !.expansion_depthing = expansion_depthing],
                  StartingSymbol(name))

\* what preprocess makes of each modelled grammar in either mode, visiting
\* the symbols in the reference order
PreprocessedInOrder ==
    [name \in GrammarNames |->
        [expansion_depthing \in BOOLEAN |->
            preprocess(Registered(name, expansion_depthing), ReferenceOrder[name])]]

\* the distances after the first pass in the reference order
FirstPassInOrder ==
    [name \in GrammarNames |->
        [expansion_depthing \in BOOLEAN |->
            RunLoopOnce(PreprocessBegin(Registered(name, expansion_depthing)),
                        ReferenceOrder[name]).gr.distanceToTerminal]]

\* C30: whatever the order in which the passes of preprocess visit the
\* symbols, distanceToTerminal and recursive_prods come out the same: as
\* they do for the reference order.
PreprocessOrderIndependent ==
    (pre.pc = "ready" /\ pre.order # << >>) =>
        LET ref == PreprocessedInOrder[NameOf(g)][g.expansion_depthing]
        IN /\ g.distanceToTerminal = ref.distanceToTerminal
           /\ g.recursive_prods = ref.recursive_prods

\* preprocess has finished after visiting the symbols in another order
\* than the reference order, on a grammar with a recursive production for
\* which the reference order needs more than one pass to lower the distances
OtherOrderFinished ==
    /\ pre.pc = "ready"
    /\ pre.order # << >>
    /\ pre.order # ReferenceOrder[NameOf(g)]
    /\ g.recursive_prods # {}
    /\ FirstPassInOrder[NameOf(g)][g.expansion_depthing] # g.distanceToTerminal

====
